---- MODULE Spec2Model ----
(***************************************************************************)
(* Model of the geospatial ETL pipeline of ClaimGuardian                   *)
(* (src/scripts/geospatial-etl-pipeline.py, class GeospatialETLPipeline).  *)
(*                                                                         *)
(* The tables of the PostgreSQL database are state variables.  Every       *)
(* method of the pipeline is modelled by one action per statement group    *)
(* that ends in a commit, with the transaction semantics the code relies   *)
(* on: psycopg2 opens a transaction at the first statement of a            *)
(* connection, a statement that raises leaves the transaction aborted      *)
(* (every later statement raises until the transaction ends, and           *)
(* conn.commit() of an aborted transaction rolls it back without raising), *)
(* and a statement sees the rows committed before it started               *)
(* (read committed).                                                       *)
(*                                                                         *)
(* Time is counted in hours; a calendar date is the number of whole days.  *)
(***************************************************************************)
EXTENDS Integers, Sequences, FiniteSets, Bags, TLC

VARIABLES
    now,            \* CURRENT_TIMESTAMP, in hours
    parcels,        \* geospatial.parcels: set of rows
    riskInput,      \* geospatial.calculate_risk_score, by parcel_id
    assessments,    \* geospatial.parcel_risk_assessment: committed rows
    properties,     \* public.properties: row by id
    events,         \* geospatial.active_events: set of rows
    notifications,  \* public.notifications: bag of committed rows
    linkUpdated,    \* rowcount of the last update_property_parcel_links
    linkedBefore,   \* history: ids of the properties linked before that run
    dpc,            \* position of each process running the impact detector
    dtx,            \* rows inserted by the open transaction of each process
    dlast,          \* history: the current/last detector run of each process
    cleanRuns,      \* number of runs of cleanup_old_data
    cleanDays,      \* retention_days of the last cleanup
    cleanDeleted,   \* rows the last cleanup deleted, by data type
    cleanRaised,    \* the statement of the last cleanup that raised, or "none"
    batch_size,     \* parameter of calculate_parcel_risk_assessments
    pc,             \* position of the risk driver
    total_parcels,  \* local of the risk driver
    offset,         \* local of the risk driver
    processed,      \* local of the risk driver
    txTable,        \* the open transaction's view of the assessment table
    txAborted,      \* the open transaction is in the aborted state
    raised,         \* the last run ended by an exception reaching the caller
    runStart,       \* CURRENT_TIMESTAMP of the current/last run
    runs,           \* number of runs started
    pagesRead,      \* history: offsets of the pages read in the current run
    lastPage,       \* history: parcel ids of the page committed last
    changed,        \* external ingestion has run since the last run started
    snap,           \* history: the table after the last two complete runs
    retry,          \* history: the failed run the current run re-invokes
    during,         \* history: ids attempted and parcels present all through the run
    analytics_metrics, \* public.analytics_metrics: bag of committed rows
    system_logs,    \* public.system_logs: sequence of committed rows
    opc,            \* position of run_full_pipeline
    started,        \* history: the stages invoked by the current/last run
    returned,       \* history: the stages that returned normally in that run
    exc,            \* the exception run_full_pipeline is handling
    stage_error,    \* history: the exception a stage of that run raised
    result,         \* how the last run reached its caller
    pipelineRuns,   \* number of runs of run_full_pipeline
    run_logs,       \* history: the system_logs rows that run committed
    outcomes,       \* history: what each finished run left to observe
    parcel_data,    \* the argument of predict_risk
    model,          \* FloridaHurricaneRiskModel.model
    risk_score,     \* the RiskScore predict_risk returned last
    scored,         \* history: the RiskScores returned so far
    spc,            \* position of generate_risk_statistics
    stx,            \* rows inserted by its open transaction
    sstart,         \* CURRENT_TIMESTAMP of that transaction
    statsRuns,      \* number of runs of generate_risk_statistics
    slast,          \* history: the current/last run of generate_risk_statistics
    fpc,            \* position of FDOTParcelFetcher.fetch_all_parcels
    progress,       \* self.progress of the fetcher
    resume_file,    \* the progress stored in config.resume_file
    api_parcels,    \* the number of parcels the FDOT API has, by county
    remaining_counties, \* local of fetch_all_parcels
    county_index,   \* position of its for loop in remaining_counties
    fetch_offset,   \* offset, local of _fetch_county_parcels
    fetch_parcels,  \* len(parcels), local of _fetch_county_parcels
    fetch_results,  \* results, local of fetch_all_parcels
    county_files,   \* the county files saved in config.output_dir
    fetchRuns,      \* number of runs of the fetcher
    fetch_hist      \* history: how the last fetch of each county went

riskLocal == <<batch_size, pc, total_parcels, offset, processed, txTable,
               txAborted, raised, runStart, runs, pagesRead, lastPage,
               changed, snap, retry, during>>
linkLocal == <<linkUpdated, linkedBefore>>
detectLocal == <<dpc, dtx, dlast>>
cleanLocal == <<cleanRuns, cleanDays, cleanDeleted, cleanRaised>>
pipeLocal == <<system_logs, opc, started, returned, exc, stage_error, result,
               pipelineRuns, run_logs, outcomes>>
scoreLocal == <<parcel_data, model, risk_score, scored>>
statLocal == <<spc, stx, sstart, statsRuns, slast>>
fetchLocal == <<fpc, progress, resume_file, api_parcels, remaining_counties,
                county_index, fetch_offset, fetch_parcels, fetch_results,
                county_files, fetchRuns, fetch_hist>>

vars == <<now, parcels, riskInput, assessments, properties, events,
          notifications, analytics_metrics, riskLocal, linkLocal, detectLocal,
          cleanLocal, pipeLocal, scoreLocal, statLocal, fetchLocal>>

----------------------------------------------------------------------------
(* Bounds of the model *)

MaxParcelId == 2     \* parcel ids of Charlotte county
MaxBatch == 2
MaxScore == 1
MaxRuns == 2
MaxNow == 50

(* Program constants *)

HoursPerDay == 24
NULL == 0            \* the NULL of properties.parcel_id

NumProcs == 2        \* processes that may run the impact detector
MaxProps == 2
MaxEvents == 1
TickHours == 12      \* hours between two observations of the clock
MaxDetectNow == 36
MaxRetention == 1    \* largest retention, in days
MaxCleanRuns == 1
MaxCleanDay == 2
MaxCleanParcels == 2
MaxCleanEvents == 3
MaxLinkParcelId == 2

Counties == {"Charlotte", "Monroe"}
Procs == 1..NumProcs
ParcelIds == 1..MaxParcelId
Scores == 1..MaxScore
Bad == 0 - 1             \* riskInput[i] = Bad: calculate_risk_score(i) raises

Date(t) == t \div HoursPerDay
CURRENT_DATE == Date(now)

Min(a, b) == IF a <= b THEN a ELSE b

----------------------------------------------------------------------------
(* geospatial.parcels: a row is identified by (county_name, parcel_id) *)

ParcelRow(c, i, a, g) ==
    [county_name |-> c, parcel_id |-> i, property_address |-> a, geom |-> g]

ParcelKeyUnique(P) ==
    \A p, q \in P : (p.county_name = q.county_name /\ p.parcel_id = q.parcel_id) => p = q

CountyRank(c) == IF c = "Charlotte" THEN 0 ELSE 1

(* SELECT parcel_id FROM geospatial.parcels ORDER BY parcel_id: the column  *)
(* of ids in ascending order, one entry per row of the table.               *)
RECURSIVE OrderByParcelId(_)
OrderByParcelId(P) ==
    IF P = {} THEN <<>>
    ELSE LET m == CHOOSE x \in P : \A y \in P :
                     \/ x.parcel_id < y.parcel_id
                     \/ /\ x.parcel_id = y.parcel_id
                        /\ CountyRank(x.county_name) <= CountyRank(y.county_name)
         IN <<m.parcel_id>> \o OrderByParcelId(P \ {m})

(* ... LIMIT batch OFFSET off *)
SelectPage(P, batch, off) ==
    LET ids == OrderByParcelId(P)
    IN SubSeq(ids, off + 1, Min(off + batch, Len(ids)))

----------------------------------------------------------------------------
(* geospatial.parcel_risk_assessment *)

(* Faulty variant: the row is dated by the timestamp instead of the calendar date *)
AssessmentRowStamped(pid, d, p, r, t) ==
    [parcel_id |-> pid, assessment_date |-> t, scores |-> r,
     facilities |-> p.geom, updated_at |-> t]

(* The row the INSERT ... SELECT builds for parcel row p: assessment_date  *)
(* is the column default (the current date), scores the result of          *)
(* calculate_risk_score, facilities what the spatial functions derive from *)
(* p.geom.                                                                 *)
AssessmentRow(pid, d, p, r, t) ==
    [parcel_id |-> pid, assessment_date |-> d, scores |-> r,
     facilities |-> p.geom, updated_at |-> t]

SameKey(r, s) == r.parcel_id = s.parcel_id /\ r.assessment_date = s.assessment_date

(* Faulty variant: the insert without the conflict clause *)
InsertOnly(T, row) == T \cup {row}

(* INSERT ... ON CONFLICT (parcel_id, assessment_date) DO UPDATE SET ... *)

Upsert(T, row) == {r \in T : ~SameKey(r, row)} \cup {row}

(* One execution of the INSERT ... SELECT of lines 84-116 for parcel id    *)
(* pid inside the try block.  st is the state of the open transaction.     *)
(* The statement raises when the transaction is already aborted, when      *)
(* calculate_risk_score raises, and when the SELECT yields two rows with   *)
(* the same conflict key (two parcels of different counties share pid:     *)
(* "ON CONFLICT DO UPDATE command cannot affect row a second time").       *)
(* The except clause logs and goes on with the next parcel.                *)
UpsertParcel(st, pid, P, rin, t) ==
    LET rows == {p \in P : p.parcel_id = pid}
    IN IF st.aborted THEN st
       ELSE IF rin[pid] = Bad \/ Cardinality(rows) > 1
            THEN [st EXCEPT !.aborted = TRUE]
       ELSE IF rows = {}
            THEN [st EXCEPT !.processed = @ + 1]
       ELSE LET p == CHOOSE x \in rows : TRUE
            IN [st EXCEPT !.table = Upsert(@, AssessmentRow(pid, Date(t), p, rin[pid], t)),
                          !.processed = @ + 1]

(* for parcel in parcels: try: ... except: ... *)
RECURSIVE UpsertPage(_, _, _, _, _)
UpsertPage(st, page, P, rin, t) ==
    IF page = <<>> THEN st
    ELSE UpsertPage(UpsertParcel(st, Head(page), P, rin, t), Tail(page), P, rin, t)

(* The parcel rows of the runs of the risk driver: the address plays no   *)
(* part, every parcel covers a cell of its own, and Monroe has a parcel   *)
(* with the id of Charlotte's first.                                      *)
ParcelUniverse ==
    {ParcelRow("Charlotte", i, <<>>, {i}) : i \in ParcelIds}
        \cup {ParcelRow("Monroe", 1, <<>>, {MaxParcelId + 1})}

NoSnap == [valid |-> FALSE]

NoDuring == [attempted |-> {}, stayed |-> {}]

NoRetry == [rerun |-> FALSE, table |-> {}, date |-> 0, partial |-> {}]

(* Faulty variant: a re-invocation resumes at the page that failed *)
StartOffsetResumed(failed) == failed

(* line 66: every invocation starts at offset 0, whatever offset the last  *)
(* one reached                                                             *)
StartOffset(failed) == 0

(* calculate_parcel_risk_assessments, lines 58-67: connect, count, offset = 0 *)
RiskStart ==
    /\ pc \in {"PENDING", "COMPLETE", "FAILED"}
    /\ runs < MaxRuns
    /\ \E dt \in {1, HoursPerDay} :
          /\ now + dt <= MaxNow
          /\ now' = now + dt
    /\ runs' = runs + 1
    /\ runStart' = now'
    /\ total_parcels' = Cardinality(parcels)
    /\ offset' = StartOffset(offset)
    /\ processed' = 0
    /\ pc' = "IN_PROGRESS"
    /\ retry' = IF pc = "FAILED" /\ ~changed
                THEN [rerun |-> TRUE, table |-> retry.table, date |-> retry.date,
                      partial |-> assessments]
                ELSE [rerun |-> FALSE, table |-> assessments, date |-> Date(now'),
                      partial |-> assessments]
    /\ during' = [attempted |-> {}, stayed |-> parcels]
    /\ raised' = FALSE
    /\ txTable' = assessments
    /\ txAborted' = FALSE
    /\ pagesRead' = {}
    /\ lastPage' = <<>>
    /\ changed' = FALSE
    /\ UNCHANGED <<parcels, riskInput, assessments, batch_size, snap>>
    /\ UNCHANGED <<properties, events, notifications, linkLocal, detectLocal, cleanLocal>>
    /\ UNCHANGED <<analytics_metrics, pipeLocal, scoreLocal, statLocal, fetchLocal>>

(* lines 69-121: one pass of the while loop up to the commit *)
RiskPage ==
    /\ pc = "IN_PROGRESS"
    /\ offset < total_parcels
    /\ LET page == SelectPage(parcels, batch_size, offset)
           st == UpsertPage([table |-> assessments, aborted |-> FALSE,
                             processed |-> processed],
                            page, parcels, riskInput, runStart)
       IN /\ txTable' = st.table
          /\ txAborted' = st.aborted
          /\ processed' = st.processed
          /\ lastPage' = page
          /\ during' = [during EXCEPT !.attempted = @ \cup {page[k] : k \in 1..Len(page)}]
    /\ pagesRead' = pagesRead \cup {offset}
    /\ pc' = "COMMIT"
    /\ UNCHANGED <<now, parcels, riskInput, assessments, batch_size,
                   total_parcels, offset, raised, runStart, runs, changed, snap, retry>>
    /\ UNCHANGED <<properties, events, notifications, linkLocal, detectLocal, cleanLocal>>
    /\ UNCHANGED <<analytics_metrics, pipeLocal, scoreLocal, statLocal, fetchLocal>>

(* Faulty variant: the commit of a page makes nothing durable *)
CommitResultNever(committed, view, aborted) == committed

CommitResult(committed, view, aborted) == IF aborted THEN committed ELSE view

(* Faulty variant: the offset stays where it is *)
NextOffsetStuck(off, batch) == off

(* line 124: offset += batch_size *)
NextOffset(off, batch) == off + batch

(* lines 123-124: conn.commit() returns; offset += batch_size *)
RiskCommit ==
    /\ pc = "COMMIT"
    /\ assessments' = CommitResult(assessments, txTable, txAborted)
    /\ txTable' = assessments'
    /\ txAborted' = FALSE
    /\ offset' = NextOffset(offset, batch_size)
    /\ pc' = "IN_PROGRESS"
    /\ UNCHANGED <<now, parcels, riskInput, batch_size, total_parcels, processed,
                   raised, runStart, runs, pagesRead, lastPage, changed, snap, retry,
                   during>>
    /\ UNCHANGED <<properties, events, notifications, linkLocal, detectLocal, cleanLocal>>
    /\ UNCHANGED <<analytics_metrics, pipeLocal, scoreLocal, statLocal, fetchLocal>>

(* Faulty variant: a commit that raises leaves the page's writes in the table *)
CommitFailKeepsView(committed, view) == view

CommitFailResult(committed, view) == committed

(* line 123: conn.commit() raises; the with block rolls back and the     *)
(* exception leaves calculate_parcel_risk_assessments                     *)
RiskCommitFail ==
    /\ pc = "COMMIT"
    /\ assessments' = CommitFailResult(assessments, txTable)
    /\ txTable' = assessments'
    /\ txAborted' = FALSE
    /\ pc' = "FAILED"
    /\ raised' = TRUE
    /\ UNCHANGED <<now, parcels, riskInput, batch_size, total_parcels, offset,
                   processed, runStart, runs, pagesRead, lastPage, changed, snap, retry,
                   during>>
    /\ UNCHANGED <<properties, events, notifications, linkLocal, detectLocal, cleanLocal>>
    /\ UNCHANGED <<analytics_metrics, pipeLocal, scoreLocal, statLocal, fetchLocal>>

(* lines 69, 128: the loop condition fails and the method returns *)
RiskFinish ==
    /\ pc = "IN_PROGRESS"
    /\ ~(offset < total_parcels)
    /\ pc' = "COMPLETE"
    /\ snap' = [valid |-> TRUE, table |-> assessments, date |-> Date(runStart),
                twice |-> snap.valid /\ snap.date = Date(runStart),
                before |-> IF snap.valid THEN snap.table ELSE {}]
    /\ UNCHANGED <<now, parcels, riskInput, assessments, batch_size, total_parcels,
                   offset, processed, txTable, txAborted, raised, runStart, runs,
                   pagesRead, lastPage, changed, retry,
                   during>>
    /\ UNCHANGED <<properties, events, notifications, linkLocal, detectLocal, cleanLocal>>
    /\ UNCHANGED <<analytics_metrics, pipeLocal, scoreLocal, statLocal, fetchLocal>>

(* External ingestion, once between two runs: the scoring inputs of a     *)
(* parcel change, or a parcel row is added or removed.                    *)
IngestChange ==
    /\ pc \in {"COMPLETE", "FAILED"}
    /\ runs < MaxRuns
    /\ ~changed
    /\ changed' = TRUE
    /\ \/ \E i \in ParcelIds, v \in Scores \cup {Bad} :
             /\ riskInput[i] # v
             /\ riskInput' = [riskInput EXCEPT ![i] = v]
             /\ parcels' = parcels
       \/ \E p \in ParcelUniverse :
             /\ parcels' = IF p \in parcels THEN parcels \ {p} ELSE parcels \cup {p}
             /\ riskInput' = riskInput
    /\ snap' = NoSnap
    /\ UNCHANGED <<now, assessments, batch_size, pc, total_parcels, offset,
                   processed, txTable, txAborted, raised, runStart, runs,
                   pagesRead, lastPage, retry,
                   during>>
    /\ UNCHANGED <<properties, events, notifications, linkLocal, detectLocal, cleanLocal>>
    /\ UNCHANGED <<analytics_metrics, pipeLocal, scoreLocal, statLocal, fetchLocal>>

InitLinkIdle ==
    /\ linkUpdated = 0
    /\ linkedBefore = {}

NoRun == [outcome |-> "none", before |-> EmptyBag, qualified |-> EmptyBag]

InitDetectIdle ==
    /\ dpc = [q \in Procs |-> "idle"]
    /\ dtx = [q \in Procs |-> EmptyBag]
    /\ dlast = [q \in Procs |-> NoRun]

InitCleanIdle ==
    /\ cleanRuns = 0
    /\ cleanDays = <<>>
    /\ cleanDeleted = [events |-> {}, assessments |-> {}]
    /\ cleanRaised = "none"

NoResult == [kind |-> "none"]

InitPipeIdle ==
    /\ analytics_metrics = EmptyBag
    /\ system_logs = <<>>
    /\ opc = "idle"
    /\ started = <<>>
    /\ returned = <<>>
    /\ exc = "none"
    /\ stage_error = "none"
    /\ result = NoResult
    /\ pipelineRuns = 0
    /\ run_logs = <<>>
    /\ outcomes = {}

InitScoreIdle ==
    /\ parcel_data = <<>>
    /\ model = "none"
    /\ risk_score = NoResult
    /\ scored = {}

NoStats == [outcome |-> "none", counties |-> {}, before |-> EmptyBag]

InitStatsIdle ==
    /\ spc = "idle"
    /\ stx = EmptyBag
    /\ sstart = 0
    /\ statsRuns = 0
    /\ slast = NoStats

(* The counties of the model, two of the list of lines 172-183 *)
FetchCounties == <<"CHARLOTTE", "MONROE">>

FetchCountySet == {FetchCounties[k] : k \in 1..Len(FetchCounties)}

(* FetchProgress() *)
NoProgress == [counties_completed |-> <<>>, fetched_parcels |-> 0, failed_parcels |-> 0]

NoFetch == [pages_ok |-> FALSE, saved |-> FALSE]

(* No fetcher was constructed yet and there is no resume file *)
InitFetcher ==
    /\ fpc = "idle"
    /\ progress = NoProgress
    /\ resume_file = NoProgress
    /\ remaining_counties = <<>>
    /\ county_index = 1
    /\ fetch_offset = 0
    /\ fetch_parcels = 0
    /\ fetch_results = <<>>
    /\ county_files = {}
    /\ fetchRuns = 0
    /\ fetch_hist = [c \in FetchCountySet |-> NoFetch]

InitFetchIdle ==
    /\ InitFetcher
    /\ api_parcels = [c \in FetchCountySet |-> 0]

InitRisk ==
    /\ InitPipeIdle
    /\ InitScoreIdle
    /\ InitStatsIdle
    /\ InitFetchIdle
    /\ InitLinkIdle
    /\ InitDetectIdle
    /\ InitCleanIdle
    /\ properties = <<>>
    /\ events = {}
    /\ notifications = EmptyBag
    /\ now = 0
    /\ parcels \in SUBSET ParcelUniverse
    /\ riskInput \in [ParcelIds -> Scores \cup {Bad}]
    /\ assessments = {}
    /\ batch_size \in 1..MaxBatch
    /\ pc = "PENDING"
    /\ total_parcels = 0
    /\ offset = 0
    /\ processed = 0
    /\ txTable = {}
    /\ txAborted = FALSE
    /\ raised = FALSE
    /\ runStart = 0
    /\ runs = 0
    /\ pagesRead = {}
    /\ lastPage = <<>>
    /\ changed = FALSE
    /\ snap = NoSnap
    /\ retry = NoRetry
    /\ during = NoDuring

NextRisk ==
    \/ RiskStart
    \/ RiskPage
    \/ RiskCommit
    \/ RiskCommitFail
    \/ RiskFinish
    \/ IngestChange

SpecRisk == InitRisk /\ [][NextRisk]_vars

(* Parcel tables of every count from zero, and scoring that succeeds for   *)
(* all parcels, for none, or for all but the first                         *)
InitRiskLive ==
    /\ InitRisk
    /\ parcels \in {{ParcelRow("Charlotte", i, <<>>, {i}) : i \in 1..k} : k \in 0..MaxParcelId}
                      \cup {ParcelUniverse}
    /\ riskInput \in {[i \in ParcelIds |-> 1], [i \in ParcelIds |-> Bad],
                      [i \in ParcelIds |-> IF i = 1 THEN Bad ELSE 1]}

(* The runs of the driver over a parcel table that does not change *)
NextRiskLive ==
    \/ RiskStart
    \/ RiskPage
    \/ RiskCommit
    \/ RiskCommitFail
    \/ RiskFinish

(* External ingestion commits the insert or the delete of a parcel in its *)
(* own transaction while a run is between two statements: the count of    *)
(* line 61 was read, the next page SELECT of lines 71-76 sees the change   *)
IngestDuringRun ==
    /\ pc = "IN_PROGRESS"
    /\ ~changed
    /\ changed' = TRUE
    /\ \E p \in ParcelUniverse :
          /\ parcels' = IF p \in parcels THEN parcels \ {p} ELSE parcels \cup {p}
          /\ during' = [during EXCEPT !.stayed = @ \ {p}]
    /\ UNCHANGED <<now, riskInput, assessments, batch_size, pc, total_parcels, offset,
                   processed, txTable, txAborted, raised, runStart, runs,
                   pagesRead, lastPage, snap, retry>>
    /\ UNCHANGED <<properties, events, notifications, linkLocal, detectLocal, cleanLocal>>
    /\ UNCHANGED <<analytics_metrics, pipeLocal, scoreLocal, statLocal, fetchLocal>>

(* The runs of the driver with external ingestion during a run *)
NextRiskIngest ==
    \/ RiskStart
    \/ RiskPage
    \/ RiskCommit
    \/ RiskCommitFail
    \/ RiskFinish
    \/ IngestDuringRun

SpecRiskIngest == InitRisk /\ [][NextRiskIngest]_vars

(* The driver is a sequential program: a statement that can run does run *)
SpecRiskLive ==
    /\ InitRiskLive
    /\ [][NextRiskLive]_vars
    /\ WF_vars(RiskPage)
    /\ WF_vars(RiskCommit \/ RiskCommitFail)
    /\ WF_vars(RiskFinish)

----------------------------------------------------------------------------
(* update_property_parcel_links.  Text values are sequences of one-letter  *)
(* strings.                                                                *)

LowerChar(c) ==
    CASE c = "A" -> "a" [] c = "E" -> "e" [] c = "F" -> "f" [] c = "H" -> "h"
      [] c = "K" -> "k" [] c = "L" -> "l" [] c = "M" -> "m" [] c = "O" -> "o"
      [] c = "S" -> "s" [] OTHER -> c

(* LOWER(s) *)
LOWER(s) == [j \in 1..Len(s) |-> LowerChar(s[j])]

(* TRIM(s): strips the spaces at both ends *)
RECURSIVE LTrim(_)
LTrim(s) == IF s # <<>> /\ Head(s) = " " THEN LTrim(Tail(s)) ELSE s

RECURSIVE RTrim(_)
RTrim(s) ==
    IF s # <<>> /\ s[Len(s)] = " " THEN RTrim(SubSeq(s, 1, Len(s) - 1)) ELSE s

TRIM(s) == RTrim(LTrim(s))

(* p.street_address || ' ' || p.city || ', FL ' || p.zip_code *)
FullAddress(p) ==
    p.street_address \o <<" ">> \o p.city \o <<",", " ", "F", "L", " ">> \o p.zip_code

(* p.street_address || ' ' || p.city *)
StreetAndCity(p) == p.street_address \o <<" ">> \o p.city

(* pg_trgm: the words of a text are its maximal runs of letters and digits *)
IsAlnum(c) == c \notin {" ", ","}

RECURSIVE WordsOf(_, _)
WordsOf(s, cur) ==
    IF s = <<>> THEN (IF cur = <<>> THEN {} ELSE {cur})
    ELSE IF IsAlnum(Head(s)) THEN WordsOf(Tail(s), Append(cur, Head(s)))
    ELSE (IF cur = <<>> THEN {} ELSE {cur}) \cup WordsOf(Tail(s), <<>>)

(* pg_trgm: each word is padded with two blanks before and one after *)
WordTrigrams(w) ==
    LET padded == <<" ", " ">> \o w \o <<" ">>
    IN {SubSeq(padded, j, j + 2) : j \in 1..(Len(padded) - 2)}

Trigrams(s) == UNION {WordTrigrams(w) : w \in WordsOf(LOWER(s), <<>>)}

(* similarity(a, b) is the float4 quotient of the number of shared        *)
(* trigrams by the number of trigrams of either text.  A float4 in        *)
(* [1/2, 1] is a multiple of 2^-24; Float4Units rounds to the nearest.    *)
Float4Units(num, den) == (2 * num * (2 ^ 24) + den) \div (2 * den)

(* similarity(a, b) > 0.8: the float4 is widened to float8 and compared   *)
(* with the decimal 0.8 *)
SimilarityThresholdTenths == 8

(* Faulty variant: the quotient is compared without the float4 rounding *)
SimilarityAboveThresholdExact(a, b) ==
    LET ta == Trigrams(a)
        tb == Trigrams(b)
        shared == Cardinality(ta \cap tb)
        all == Cardinality(ta \cup tb)
    IN /\ all > 0
       /\ 10 * shared > SimilarityThresholdTenths * all

SimilarityAboveThreshold(a, b) ==
    LET ta == Trigrams(a)
        tb == Trigrams(b)
        shared == Cardinality(ta \cap tb)
        all == Cardinality(ta \cup tb)
    IN /\ all > 0
       /\ 10 * Float4Units(shared, all) > SimilarityThresholdTenths * (2 ^ 24)

(* The exact match of lines 144-145 *)
ExactMatch(p, gp) ==
    LOWER(TRIM(FullAddress(p))) = LOWER(TRIM(gp.property_address))

(* The fuzzy match of lines 148-151 *)
FuzzyMatch(p, gp) ==
    SimilarityAboveThreshold(LOWER(TRIM(StreetAndCity(p))),
                             LOWER(TRIM(gp.property_address)))

(* The texts of the model *)
TextOak == <<"O", "a", "k">>
TextElm == <<"E", "l", "m">>
TextZip == <<"3">>
AddrExact == <<"O", "A", "K", " ", "E", "L", "M", ",", " ", "F", "L", " ", "3", " ">>
AddrNear == <<"9", " ", "O", "a", "k", " ", "E", "l", "m">>
AddrOther == <<"A", "s", "h", " ", "E", "l", "m", ",", " ", "F", "L", " ", "3">>
LinkAddresses == {AddrExact, AddrNear, AddrOther}

PropertyRow(u, c, i) ==
    [user_id |-> u, parcel_id |-> i, county |-> c, street_address |-> TextOak,
     city |-> TextElm, zip_code |-> TextZip]

(* The two matches of the model's property address against each parcel   *)
(* address, evaluated once                                                *)
AddressMatches ==
    [a \in LinkAddresses |->
        LET p == PropertyRow(NULL, "Charlotte", NULL)
            gp == [property_address |-> a]
        IN ExactMatch(p, gp) \/ FuzzyMatch(p, gp)]

(* The join condition of the UPDATE ... FROM, without p.parcel_id IS NULL *)
LinkMatch(p, gp) ==
    /\ AddressMatches[gp.property_address]
    /\ p.county = gp.county_name

PropIds == DOMAIN properties

(* Faulty variant: the update without WHERE p.parcel_id IS NULL *)
LinkTargetsAll(props, P) ==
    {i \in DOMAIN props : \E gp \in P : LinkMatch(props[i], gp)}

(* The rows the UPDATE changes: unlinked properties with a matching parcel *)
LinkTargets(props, P) ==
    {i \in DOMAIN props :
        /\ props[i].parcel_id = NULL
        /\ \E gp \in P : LinkMatch(props[i], gp)}

(* update_property_parcel_links: the UPDATE and its commit.  When several *)
(* parcels match a property, PostgreSQL uses one of the joined rows.      *)
LinkUpdate ==
    /\ linkUpdated' = Cardinality(LinkTargets(properties, parcels))
    /\ linkedBefore' = {i \in PropIds : properties[i].parcel_id # NULL}
    /\ \E choice \in [LinkTargets(properties, parcels) -> parcels] :
          /\ \A i \in LinkTargets(properties, parcels) :
                LinkMatch(properties[i], choice[i])
          /\ properties' =
                [i \in PropIds |->
                    IF i \in LinkTargets(properties, parcels)
                    THEN [properties[i] EXCEPT !.parcel_id = choice[i].parcel_id]
                    ELSE properties[i]]

LinkRun ==
    /\ LinkUpdate
    /\ UNCHANGED <<now, parcels, riskInput, assessments, events, notifications,
                   riskLocal, detectLocal, cleanLocal>>
    /\ UNCHANGED <<analytics_metrics, pipeLocal, scoreLocal, statLocal, fetchLocal>>

LinkParcelUniverse ==
    {ParcelRow("Charlotte", i, a, {i}) : i \in 1..MaxLinkParcelId, a \in LinkAddresses}

(* External ingestion replaces, adds or removes a parcel row *)
LinkParcelIngest ==
    /\ \E gp \in LinkParcelUniverse :
          LET others == {q \in parcels : ~(q.county_name = gp.county_name
                                            /\ q.parcel_id = gp.parcel_id)}
          IN parcels' = IF gp \in parcels THEN others ELSE others \cup {gp}
    /\ UNCHANGED <<now, riskInput, assessments, properties, events, notifications,
                   riskLocal, linkLocal, detectLocal, cleanLocal>>
    /\ UNCHANGED <<analytics_metrics, pipeLocal, scoreLocal, statLocal, fetchLocal>>

InitDriverIdle ==
    /\ pc = "PENDING"
    /\ total_parcels = 0
    /\ offset = 0
    /\ processed = 0
    /\ txTable = {}
    /\ txAborted = FALSE
    /\ raised = FALSE
    /\ runStart = 0
    /\ runs = 0
    /\ pagesRead = {}
    /\ lastPage = <<>>
    /\ changed = FALSE
    /\ snap = NoSnap
    /\ retry = NoRetry
    /\ during = NoDuring

InitRiskIdle ==
    /\ riskInput = [i \in ParcelIds |-> 1]
    /\ batch_size = 1
    /\ InitDriverIdle

InitLink ==
    /\ InitPipeIdle
    /\ InitScoreIdle
    /\ InitStatsIdle
    /\ InitFetchIdle
    /\ now = 0
    /\ parcels = {}
    /\ assessments = {}
    /\ events = {}
    /\ notifications = EmptyBag
    /\ properties \in [1..MaxProps ->
           {PropertyRow(1, c, i) : c \in Counties, i \in {NULL} \cup (1..MaxLinkParcelId)}]
    /\ linkUpdated = 0
    /\ linkedBefore = {}
    /\ InitRiskIdle
    /\ InitDetectIdle
    /\ InitCleanIdle

NextLink ==
    \/ LinkRun
    \/ LinkParcelIngest

SpecLink == InitLink /\ [][NextLink]_vars

(* C5: no step changes the parcel_id of a property whose parcel_id is set, *)
(* whatever the resolver runs and the changes of the parcel table.         *)
C5_LinkedPropertyKeepsParcel ==
    [][\A i \in PropIds :
          properties[i].parcel_id # NULL
              => properties'[i].parcel_id = properties[i].parcel_id]_vars

(* C5 witness: the resolver has run over a parcel table in which a parcel  *)
(* of another id matches a property that was linked before the run, and    *)
(* has linked another property in that run.                                *)
C5_Witness ==
    /\ linkUpdated > 0
    /\ \E i \in linkedBefore : \E gp \in parcels :
          /\ LinkMatch(properties[i], gp)
          /\ gp.parcel_id # properties[i].parcel_id

(* The kinds of match of the model's property address with each parcel    *)
(* address: the texts are equal after LOWER and TRIM; the quotient of the  *)
(* trigram counts is at least 8/10                                         *)
MatchKinds ==
    [a \in LinkAddresses |->
        LET p == PropertyRow(NULL, "Charlotte", NULL)
            ta == Trigrams(LOWER(TRIM(StreetAndCity(p))))
            tb == Trigrams(LOWER(TRIM(a)))
        IN [exact |-> LOWER(TRIM(FullAddress(p))) = LOWER(TRIM(a)),
            shared |-> Cardinality(ta \cap tb),
            all |-> Cardinality(ta \cup tb)]]

IsExact(gp) == MatchKinds[gp.property_address].exact

SimilarityAtLeastThreshold(gp) ==
    LET k == MatchKinds[gp.property_address]
    IN k.all > 0 /\ 10 * k.shared >= SimilarityThresholdTenths * k.all

SimilarityIsThreshold(gp) ==
    LET k == MatchKinds[gp.property_address]
    IN k.all > 0 /\ 10 * k.shared = SimilarityThresholdTenths * k.all

(* The parcels of the county of property i *)
SameCounty(i) == {gp \in parcels : gp.county_name = properties[i].county}

(* A step of the resolver: the parcel table is read, not changed *)
LinkStep == parcels' = parcels

(* C29 (as claimed): a run links an unlinked property that has, in its     *)
(* county, an exactly matching parcel and another parcel that matches by   *)
(* similarity only, to an exactly matching parcel; a property without a    *)
(* match in its county keeps a null parcel_id.                             *)
C29_ExactBeforeFuzzy ==
    [][LinkStep =>
          \A i \in PropIds : properties[i].parcel_id = NULL =>
              /\ (/\ \E e \in SameCounty(i) : IsExact(e)
                  /\ \E f \in SameCounty(i) : ~IsExact(f) /\ SimilarityAtLeastThreshold(f))
                 => \E e \in SameCounty(i) :
                       IsExact(e) /\ properties'[i].parcel_id = e.parcel_id
              /\ (\A gp \in SameCounty(i) : ~IsExact(gp) /\ ~SimilarityAtLeastThreshold(gp))
                 => properties'[i].parcel_id = NULL]_vars

(* C30: a run links every unlinked property that has, in its county, a     *)
(* parcel whose address is equal or similar by 0.8 or more, to such a      *)
(* parcel of its county, also when the best similarity is exactly 0.8;     *)
(* it links no other property.                                             *)
C30_FuzzyThresholdInclusive ==
    [][LinkStep =>
          \A i \in PropIds : properties[i].parcel_id = NULL =>
              LET candidates == {gp \in SameCounty(i) :
                                    IsExact(gp) \/ SimilarityAtLeastThreshold(gp)}
              IN IF candidates = {}
                 THEN properties'[i].parcel_id = NULL
                 ELSE \E gp \in candidates : properties'[i].parcel_id = gp.parcel_id]_vars

(* C30 witness: a run has linked a property whose only candidate has the   *)
(* similarity 0.8 and is not an exact match, and has left unlinked a       *)
(* property of the other county.                                           *)
C30_Witness ==
    /\ linkUpdated > 0
    /\ \E i \in PropIds \ linkedBefore :
          /\ properties[i].parcel_id # NULL
          /\ \A gp \in SameCounty(i) : ~IsExact(gp)
          /\ \E gp \in SameCounty(i) :
                /\ gp.parcel_id = properties[i].parcel_id
                /\ SimilarityIsThreshold(gp)
    /\ \E i \in PropIds :
          /\ properties[i].parcel_id = NULL
          /\ SameCounty(i) = {}
          /\ \E gp \in parcels : SimilarityAtLeastThreshold(gp)

----------------------------------------------------------------------------
(* detect_active_event_impacts.  A geometry is a set of cells.             *)

DedupWindowHours == 24

(* Faulty variant: the join without the spatial predicate *)
ST_IntersectsAlways(a, b) == TRUE

ST_Intersects(a, b) == a \cap b # {}

ImpactArea(a, b) == Cardinality(a \cap b)

(* The rows of the CTE affected_properties: one per joined                 *)
(* (event, parcel, property)                                               *)
AffectedProperties(E, P, props) ==
    {<<ae, gp, i>> \in E \X P \X DOMAIN props :
        /\ ae.status = "active"
        /\ ST_Intersects(ae.geom, gp.geom)
        /\ props[i].parcel_id = gp.parcel_id}

NotificationRow(ap, props, t) ==
    [user_id |-> props[ap[3]].user_id, event_id |-> ap[1].id, property_id |-> ap[3],
     impact_area |-> ImpactArea(ap[1].geom, ap[2].geom), created_at |-> t]

SameTriple(n, m) ==
    /\ n.user_id = m.user_id
    /\ n.event_id = m.event_id
    /\ n.property_id = m.property_id

(* Faulty variant: the subquery without the condition on created_at *)
AlreadyNotifiedForever(N, row, t) ==
    \E n \in BagToSet(N) : SameTriple(n, row)

(* The subquery of NOT EXISTS, over the notifications N the statement sees *)
AlreadyNotified(N, row, t) ==
    \E n \in BagToSet(N) :
        /\ SameTriple(n, row)
        /\ n.created_at > t - DedupWindowHours

(* The rows the INSERT ... SELECT adds, one per row of the CTE that passes *)
(* the filter                                                              *)
RECURSIVE InsertedRows(_, _, _, _)
InsertedRows(aps, props, N, t) ==
    IF aps = {} THEN EmptyBag
    ELSE LET ap == CHOOSE x \in aps : TRUE
             row == NotificationRow(ap, props, t)
             rest == InsertedRows(aps \ {ap}, props, N, t)
         IN IF AlreadyNotified(N, row, t) THEN rest ELSE rest (+) SetToBag({row})

(* The rows that qualify in a run that executes its statement now *)
Qualifying ==
    InsertedRows(AffectedProperties(events, parcels, properties),
                 properties, notifications, now)

DetectRun(outcome, before, qualified) ==
    [outcome |-> outcome, before |-> before, qualified |-> qualified]

(* lines 165-212: the statement, executed on the committed tables *)
DetectExecute(q) ==
    /\ dpc[q] = "idle"
    /\ dtx' = [dtx EXCEPT ![q] = Qualifying]
    /\ dpc' = [dpc EXCEPT ![q] = "executed"]
    /\ dlast' = [dlast EXCEPT ![q] = DetectRun("open", notifications, Qualifying)]
    /\ UNCHANGED <<now, parcels, riskInput, assessments, properties, events,
                   notifications, riskLocal, linkLocal, cleanLocal>>
    /\ UNCHANGED <<analytics_metrics, pipeLocal, scoreLocal, statLocal, fetchLocal>>

(* The process of schedule_pipeline_runs, which runs its jobs one after   *)
(* the other                                                              *)
Scheduler == CHOOSE q \in Procs : TRUE

(* A run of the scheduler process *)
DetectExecuteAlone ==
    /\ \A r \in Procs : dpc[r] = "idle"
    /\ DetectExecute(Scheduler)

(* lines 214-215: conn.commit() *)
DetectCommit(q) ==
    /\ dpc[q] = "executed"
    /\ notifications' = notifications (+) dtx[q]
    /\ dtx' = [dtx EXCEPT ![q] = EmptyBag]
    /\ dpc' = [dpc EXCEPT ![q] = "idle"]
    /\ dlast' = [dlast EXCEPT ![q].outcome = "committed"]
    /\ UNCHANGED <<now, parcels, riskInput, assessments, properties, events,
                   riskLocal, linkLocal, cleanLocal>>
    /\ UNCHANGED <<analytics_metrics, pipeLocal, scoreLocal, statLocal, fetchLocal>>

(* Faulty variant: the rows of a failed commit stay in the table *)
DetectFailKeepsRows(committed, rows) == committed (+) rows

(* The with block of line 165 ends by an exception: conn.rollback() *)
DetectFailResult(committed, rows) == committed

(* lines 165-212: get_db_connection or the statement raises; a statement   *)
(* that raises has inserted no row, and the with block rolls back          *)
DetectExecuteFail(q) ==
    /\ dpc[q] = "idle"
    /\ \A r \in Procs : dpc[r] = "idle"
    /\ notifications' = DetectFailResult(notifications, EmptyBag)
    /\ dlast' = [dlast EXCEPT ![q] = DetectRun("failed", notifications, Qualifying)]
    /\ UNCHANGED <<dpc, dtx>>
    /\ UNCHANGED <<now, parcels, riskInput, assessments, properties, events,
                   riskLocal, linkLocal, cleanLocal>>
    /\ UNCHANGED <<analytics_metrics, pipeLocal, scoreLocal, statLocal, fetchLocal>>

(* line 215: conn.commit() raises; the with block rolls back *)
DetectCommitFail(q) ==
    /\ dpc[q] = "executed"
    /\ notifications' = DetectFailResult(notifications, dtx[q])
    /\ dtx' = [dtx EXCEPT ![q] = EmptyBag]
    /\ dpc' = [dpc EXCEPT ![q] = "idle"]
    /\ dlast' = [dlast EXCEPT ![q].outcome = "failed"]
    /\ UNCHANGED <<now, parcels, riskInput, assessments, properties, events,
                   riskLocal, linkLocal, cleanLocal>>
    /\ UNCHANGED <<analytics_metrics, pipeLocal, scoreLocal, statLocal, fetchLocal>>

(* Time passes *)
DetectTick ==
    /\ now + TickHours <= MaxDetectNow
    /\ now' = now + TickHours
    /\ UNCHANGED <<parcels, riskInput, assessments, properties, events,
                   notifications, riskLocal, linkLocal, detectLocal, cleanLocal>>
    /\ UNCHANGED <<analytics_metrics, pipeLocal, scoreLocal, statLocal, fetchLocal>>

(* External ingestion ends an event *)
EventEnds ==
    /\ \E ae \in events :
          /\ ae.status = "active"
          /\ events' = (events \ {ae})
                          \cup {[ae EXCEPT !.status = "inactive", !.updated_at = now]}
    /\ UNCHANGED <<now, parcels, riskInput, assessments, properties,
                   notifications, riskLocal, linkLocal, detectLocal, cleanLocal>>
    /\ UNCHANGED <<analytics_metrics, pipeLocal, scoreLocal, statLocal, fetchLocal>>

EventRow(i, st, t, g) == [id |-> i, status |-> st, updated_at |-> t, geom |-> g]

(* Charlotte and Monroe both have a parcel 1 *)
DetectParcelUniverse ==
    {ParcelRow("Charlotte", 1, <<>>, {1}), ParcelRow("Monroe", 1, <<>>, {2}),
     ParcelRow("Charlotte", 2, <<>>, {3})}

EventGeoms == {{1, 2}, {3}}

InitDetect ==
    /\ InitPipeIdle
    /\ InitScoreIdle
    /\ InitStatsIdle
    /\ InitFetchIdle
    /\ now = 0
    /\ parcels \in SUBSET DetectParcelUniverse
    /\ assessments = {}
    /\ \E f \in [1..MaxEvents -> {"active", "inactive"} \X EventGeoms] :
          events = {EventRow(i, f[i][1], 0, f[i][2]) : i \in 1..MaxEvents}
    /\ notifications = EmptyBag
    /\ \E f \in [1..MaxProps -> {NULL, 1, 2}] :
          properties = [i \in 1..MaxProps |-> PropertyRow(i, "Charlotte", f[i])]
    /\ InitRiskIdle
    /\ InitLinkIdle
    /\ InitDetectIdle
    /\ InitCleanIdle

NextDetect ==
    \/ DetectExecuteAlone
    \/ \E q \in Procs : DetectCommit(q)
    \/ DetectTick
    \/ EventEnds

SpecDetect == InitDetect /\ [][NextDetect]_vars

NextDetectConcurrent ==
    \/ \E q \in Procs : DetectExecute(q)
    \/ \E q \in Procs : DetectCommit(q)
    \/ DetectTick
    \/ EventEnds

SpecDetectConcurrent == InitDetect /\ [][NextDetectConcurrent]_vars

(* The runs of the scheduler process, any of which may fail *)
NextDetectFailing ==
    \/ DetectExecuteAlone
    \/ DetectExecuteFail(Scheduler)
    \/ DetectCommit(Scheduler)
    \/ DetectCommitFail(Scheduler)
    \/ DetectTick
    \/ EventEnds

SpecDetectFailing == InitDetect /\ [][NextDetectFailing]_vars

(* No (user_id, event_id, property_id) has two notifications whose         *)
(* created_at lie less than 24 hours apart                                 *)
NoDuplicateWithinWindow ==
    \A n \in BagToSet(notifications) :
        /\ CopiesIn(n, notifications) = 1
        /\ \A m \in BagToSet(notifications) :
              (m # n /\ SameTriple(n, m)) =>
                  \/ n.created_at - m.created_at >= DedupWindowHours
                  \/ m.created_at - n.created_at >= DedupWindowHours

ParcelIdsDistinct == \A gp, gq \in parcels : gp.parcel_id = gq.parcel_id => gp = gq

(* C6 (as claimed): after any number of successive, non-overlapping runs   *)
(* of the detector no triple has two notifications within 24 hours, for    *)
(* any contents of the parcel, property and event tables.                  *)
C6_NoDuplicateNotification == NoDuplicateWithinWindow

(* C7 (as claimed): runs of the detector that overlap in separate          *)
(* transactions still give a triple at most one notification within the    *)
(* window (here even for parcel tables without a shared parcel_id).        *)
C7_DedupAtomicWithInsert == ParcelIdsDistinct => NoDuplicateWithinWindow

(* The scheduler process executes the statement of a run *)
DetectRunStep == dpc[Scheduler] = "idle" /\ dpc'[Scheduler] # "idle"

(* The number of rows of bag B for event ae and property i *)
CreatedFor(B, ae, i) ==
    LET rows == {n \in BagToSet(B) : n.event_id = ae.id /\ n.property_id = i}
    IN BagCardinality([n \in rows |-> CopiesIn(n, B)])

(* Property i is linked to a parcel id some parcel of which intersects the *)
(* active event ae                                                         *)
Impacted(ae, i) ==
    /\ ae.status = "active"
    /\ properties[i].parcel_id # NULL
    /\ \E gp \in parcels :
          /\ gp.parcel_id = properties[i].parcel_id
          /\ ae.geom \cap gp.geom # {}

(* C19 (as claimed): a run that starts with no notification of the last 24 *)
(* hours creates exactly one notification for each (active event,          *)
(* property) whose linked parcel intersects the event, and none for any    *)
(* other pair.                                                             *)
C19_OneNotificationPerImpactedPair ==
    [][(DetectRunStep
          /\ \A n \in BagToSet(notifications) : n.created_at <= now - DedupWindowHours)
       => \A ae \in events, i \in PropIds :
             CreatedFor(dtx'[Scheduler], ae, i) = IF Impacted(ae, i) THEN 1 ELSE 0]_vars

(* No active event intersects a parcel *)
NoImpact ==
    \A ae \in events, gp \in parcels :
        ae.status = "active" => ae.geom \cap gp.geom = {}

(* C20: when no active event intersects any parcel, a run executes its     *)
(* statement without error and the statement inserts no notification.      *)
C20_NoIntersectionNoNotification ==
    [][(DetectRunStep /\ NoImpact)
       => /\ dpc'[Scheduler] = "executed"
          /\ dtx'[Scheduler] = EmptyBag]_vars

(* C20 witness: a run has executed with an active event, parcels and a     *)
(* linked property but no intersection, and has inserted nothing.          *)
C20_Witness ==
    /\ dpc[Scheduler] = "executed"
    /\ dtx[Scheduler] = EmptyBag
    /\ NoImpact
    /\ \E ae \in events : ae.status = "active"
    /\ \E i \in PropIds, gp \in parcels : properties[i].parcel_id = gp.parcel_id

(* C21: a run that has not committed has changed nothing in the            *)
(* notification table; a run that ended by a failure of its statement or   *)
(* of its commit leaves the table it found; a run that committed has added *)
(* all the rows that qualified in it.                                      *)
C21_DetectorRunAtomic ==
    LET run == dlast[Scheduler]
    IN /\ run.outcome \in {"open", "failed"} => notifications = run.before
       /\ run.outcome = "committed" => notifications = run.before (+) run.qualified
       /\ run.outcome = "open" <=> dpc[Scheduler] = "executed"

(* C21 witness: after a run that committed notifications, a run in which   *)
(* two notifications qualified failed at its commit.                       *)
C21_Witness ==
    /\ dlast[Scheduler].outcome = "failed"
    /\ dpc[Scheduler] = "idle"
    /\ BagCardinality(dlast[Scheduler].qualified) >= 2
    /\ notifications # EmptyBag

(* The committed notifications for property i, its user and event ae *)
NotificationsOf(ae, i) ==
    {n \in BagToSet(notifications) :
        /\ n.user_id = properties[i].user_id
        /\ n.event_id = ae.id
        /\ n.property_id = i}

(* C34: a run that starts 24 hours or more after the latest notification   *)
(* of (user, event, property), the event being active and intersecting a   *)
(* parcel the property is linked to, creates a notification for the        *)
(* triple, dated by the start of the run; a run that starts less than 24   *)
(* hours after a notification of the triple creates none for it; the       *)
(* commit adds what the run created.                                       *)
C34_DedupWindowExpires ==
    [][/\ DetectRunStep =>
            \A ae \in events, i \in PropIds :
               LET old == NotificationsOf(ae, i)
               IN /\ (/\ Impacted(ae, i)
                      /\ old # {}
                      /\ \A n \in old : now - n.created_at >= 24)
                      => /\ CreatedFor(dtx'[Scheduler], ae, i) >= 1
                         /\ \A m \in BagToSet(dtx'[Scheduler]) : m.created_at = now
                  /\ (\E n \in old : now - n.created_at < 24)
                      => CreatedFor(dtx'[Scheduler], ae, i) = 0
       /\ (dpc[Scheduler] = "executed" /\ dpc'[Scheduler] = "idle")
            => notifications' = notifications (+) dtx[Scheduler]]_vars

(* C34 witness: a triple has two committed notifications, the second made *)
(* by the first run more than 24 hours after the first                    *)
C34_Witness ==
    \E ae \in events, i \in PropIds :
        \E n, m \in NotificationsOf(ae, i) :
            /\ m.created_at - n.created_at > 24
            /\ \A k \in NotificationsOf(ae, i) : k.created_at \in {n.created_at, m.created_at}
            /\ dlast[Scheduler].outcome = "committed"
            /\ dlast[Scheduler].before # EmptyBag

----------------------------------------------------------------------------
(* cleanup_old_data *)

DataTypes == {"active_events", "risk_assessments"}

(* The retention_days arguments of the model *)
RetentionChoices == UNION {[K -> 0..MaxRetention] : K \in SUBSET DataTypes}

(* Faulty variant: the delete without status != 'active' *)
StaleEventsAnyStatus(E, days, t) ==
    {ae \in E : ae.updated_at < t - days * HoursPerDay}

(* DELETE FROM geospatial.active_events WHERE status != 'active'          *)
(* AND updated_at < CURRENT_TIMESTAMP - INTERVAL '<days> days'            *)
StaleEvents(E, days, t) ==
    {ae \in E : ae.status # "active" /\ ae.updated_at < t - days * HoursPerDay}

(* SELECT MAX(assessment_date) ... GROUP BY parcel_id *)
MaxDates(T) ==
    {r.assessment_date : r \in {x \in T : \A y \in T :
        y.parcel_id = x.parcel_id => y.assessment_date <= x.assessment_date}}

(* Faulty variant: the delete without the NOT IN subquery *)
StaleAssessmentsAll(T, days, t) ==
    {r \in T : r.assessment_date < Date(t) - days}

(* DELETE FROM geospatial.parcel_risk_assessment                          *)
(* WHERE assessment_date < CURRENT_DATE - INTERVAL '<days> days'          *)
(* AND assessment_date NOT IN (SELECT MAX(assessment_date) ...)           *)
StaleAssessments(T, days, t) ==
    {r \in T : /\ r.assessment_date < Date(t) - days
               /\ r.assessment_date \notin MaxDates(T)}

(* The rows the loop of lines 243-247 deletes for retention_days rd *)
DeletedEvents(rd) ==
    IF "active_events" \in DOMAIN rd
    THEN StaleEvents(events, rd["active_events"], now) ELSE {}

DeletedAssessments(rd) ==
    IF "risk_assessments" \in DOMAIN rd
    THEN StaleAssessments(assessments, rd["risk_assessments"], now) ELSE {}

(* cleanup_old_data(rd): both deletes and the commit *)
CleanupRun ==
    /\ cleanRuns < MaxCleanRuns
    /\ \E rd \in RetentionChoices :
          /\ events' = events \ DeletedEvents(rd)
          /\ assessments' = assessments \ DeletedAssessments(rd)
          /\ cleanDays' = rd
          /\ cleanDeleted' = [events |-> DeletedEvents(rd),
                              assessments |-> DeletedAssessments(rd)]
    /\ cleanRuns' = cleanRuns + 1
    /\ cleanRaised' = "none"
    /\ UNCHANGED <<now, parcels, riskInput, properties, notifications,
                   riskLocal, linkLocal, detectLocal>>
    /\ UNCHANGED <<analytics_metrics, pipeLocal, scoreLocal, statLocal, fetchLocal>>

(* The statements of cleanup_old_data(rd), in the order they execute: the  *)
(* connection, the delete of each policy whose key is in rd, in the order  *)
(* of cleanup_queries, and the commit                                      *)
CleanupStatements(rd) ==
    <<"connect">>
      \o (IF "active_events" \in DOMAIN rd THEN <<"active_events">> ELSE <<>>)
      \o (IF "risk_assessments" \in DOMAIN rd THEN <<"risk_assessments">> ELSE <<>>)
      \o <<"commit">>

(* The table as the open transaction sees it when statement k raises: the *)
(* deletes executed before it have been applied                           *)
CleanupView(T, deleted, rd, data_type, k) ==
    IF \E j \in 1..(k - 1) : CleanupStatements(rd)[j] = data_type
    THEN T \ deleted ELSE T

(* Faulty variant: the deletes executed before the exception stay *)
CleanupFailKeepsDeletes(committed, view) == view

(* The with block of line 241 ends by an exception: conn.rollback() *)
CleanupFailResult(committed, view) == committed

(* cleanup_old_data(rd) in which statement k raises *)
CleanupFail ==
    /\ cleanRuns < MaxCleanRuns
    /\ \E rd \in RetentionChoices :
          \E k \in 1..Len(CleanupStatements(rd)) :
             /\ events' = CleanupFailResult(events,
                    CleanupView(events, DeletedEvents(rd), rd, "active_events", k))
             /\ assessments' = CleanupFailResult(assessments,
                    CleanupView(assessments, DeletedAssessments(rd), rd,
                                "risk_assessments", k))
             /\ cleanDays' = rd
             /\ cleanRaised' = CleanupStatements(rd)[k]
    /\ cleanDeleted' = [events |-> {}, assessments |-> {}]
    /\ cleanRuns' = cleanRuns + 1
    /\ UNCHANGED <<now, parcels, riskInput, properties, notifications,
                   riskLocal, linkLocal, detectLocal>>
    /\ UNCHANGED <<analytics_metrics, pipeLocal, scoreLocal, statLocal, fetchLocal>>

(* A day passes *)
CleanTick ==
    /\ now + HoursPerDay <= MaxCleanDay * HoursPerDay
    /\ now' = now + HoursPerDay
    /\ UNCHANGED <<parcels, riskInput, assessments, properties, events,
                   notifications, riskLocal, linkLocal, detectLocal, cleanLocal>>
    /\ UNCHANGED <<analytics_metrics, pipeLocal, scoreLocal, statLocal, fetchLocal>>

(* The risk driver commits today's assessment of a parcel *)
CleanAssess ==
    /\ \E gp \in parcels :
          assessments' = Upsert(assessments,
              AssessmentRow(gp.parcel_id, CURRENT_DATE, gp, riskInput[gp.parcel_id], now))
    /\ UNCHANGED <<now, parcels, riskInput, properties, events, notifications,
                   riskLocal, linkLocal, detectLocal, cleanLocal>>
    /\ UNCHANGED <<analytics_metrics, pipeLocal, scoreLocal, statLocal, fetchLocal>>

InitClean(P, E) ==
    /\ InitPipeIdle
    /\ InitScoreIdle
    /\ InitStatsIdle
    /\ InitFetchIdle
    /\ now = 0
    /\ parcels = P
    /\ assessments = {}
    /\ events = E
    /\ notifications = EmptyBag
    /\ properties = <<>>
    /\ InitRiskIdle
    /\ InitLinkIdle
    /\ InitDetectIdle
    /\ InitCleanIdle

(* The cleanup of the assessments: the event table is empty *)
InitCleanAssessments ==
    InitClean({ParcelRow("Charlotte", i, <<>>, {i}) : i \in 1..MaxCleanParcels}, {})

NextCleanAssessments ==
    \/ CleanupRun
    \/ CleanTick
    \/ CleanAssess

SpecCleanAssessments == InitCleanAssessments /\ [][NextCleanAssessments]_vars

(* The cleanup of the events: the assessment table is empty *)
InitCleanEvents ==
    InitClean({}, {EventRow(i, "active", 0, {1}) : i \in 1..MaxCleanEvents})

NextCleanEvents ==
    \/ CleanupRun
    \/ CleanTick
    \/ EventEnds

SpecCleanEvents == InitCleanEvents /\ [][NextCleanEvents]_vars

(* The cleanup of both tables, any run of which may fail: one parcel and   *)
(* one event                                                               *)
InitCleanFailing ==
    InitClean({ParcelRow("Charlotte", 1, <<>>, {1})}, {EventRow(1, "active", 0, {1})})

NextCleanFailing ==
    \/ CleanupRun
    \/ CleanupFail
    \/ CleanTick
    \/ CleanAssess
    \/ EventEnds

SpecCleanFailing == InitCleanFailing /\ [][NextCleanFailing]_vars

IsLatestOfParcel(r, T) ==
    \A x \in T : x.parcel_id = r.parcel_id => x.assessment_date <= r.assessment_date

CleanupStep == cleanRuns' # cleanRuns

(* C8: a run of the cleanup keeps, for every parcel that has assessments,  *)
(* the row of the parcel's latest assessment_date, whatever its age and    *)
(* the retention.                                                          *)
C8_CleanupKeepsLatest ==
    [][CleanupStep =>
          \A r \in assessments : IsLatestOfParcel(r, assessments) => r \in assessments']_vars

(* C8 witness: a cleanup has deleted assessments and kept a parcel's       *)
(* latest one that is older than the retention.                            *)
C8_Witness ==
    /\ cleanRuns > 0
    /\ "risk_assessments" \in DOMAIN cleanDays
    /\ cleanDeleted.assessments # {}
    /\ \E r \in assessments :
          /\ IsLatestOfParcel(r, assessments)
          /\ r.assessment_date < CURRENT_DATE - cleanDays["risk_assessments"]

(* C9 (as claimed): a cleanup with N days for risk_assessments deletes     *)
(* exactly the rows older than N days that are not the latest of their     *)
(* own parcel.                                                             *)
C9_DeletesOldNonLatest ==
    [][(CleanupStep /\ "risk_assessments" \in DOMAIN cleanDays') =>
          assessments' = {r \in assessments :
              ~(/\ r.assessment_date < CURRENT_DATE - cleanDays'["risk_assessments"]
                /\ ~IsLatestOfParcel(r, assessments))}]_vars

(* C10: a cleanup with N days for active_events deletes exactly the events *)
(* that are not active and were updated more than N days ago; no cleanup   *)
(* deletes an active event.                                                *)
C10_EventRetention ==
    [][CleanupStep =>
          /\ \A ae \in events : ae.status = "active" => ae \in events'
          /\ "active_events" \in DOMAIN cleanDays' =>
                events' = {ae \in events :
                    \/ ae.status = "active"
                    \/ ae.updated_at >= now - cleanDays'["active_events"] * HoursPerDay}]_vars

(* C10 witness: a cleanup has deleted an event, kept an active event older *)
(* than the retention and kept an inactive one updated within it.          *)
C10_Witness ==
    /\ cleanRuns > 0
    /\ "active_events" \in DOMAIN cleanDays
    /\ cleanDeleted.events # {}
    /\ \E ae \in events :
          /\ ae.status = "active"
          /\ ae.updated_at < now - cleanDays["active_events"] * HoursPerDay
    /\ \E ae \in events :
          /\ ae.status # "active"
          /\ ae.updated_at >= now - cleanDays["active_events"] * HoursPerDay

(* C36: a run of cleanup_old_data in which a statement raised leaves both *)
(* tables as they were, also when the delete of active_events had been    *)
(* executed before the delete of risk_assessments raised; a run that      *)
(* commits applies the deletes of its policies together; a policy whose   *)
(* key is not in retention_days deletes nothing.                          *)
C36_CleanupOneTransaction ==
    [][CleanupStep =>
         /\ cleanRaised' # "none" => (events' = events /\ assessments' = assessments)
         /\ cleanRaised' = "none" =>
               /\ events' = events \ DeletedEvents(cleanDays')
               /\ assessments' = assessments \ DeletedAssessments(cleanDays')
         /\ "active_events" \notin DOMAIN cleanDays' => events' = events
         /\ "risk_assessments" \notin DOMAIN cleanDays' => assessments' = assessments]_vars

(* C36 witness: the delete of risk_assessments raised after the delete of *)
(* active_events had removed an event, which is still in the table        *)
C36_Witness ==
    /\ cleanRaised = "risk_assessments"
    /\ "active_events" \in DOMAIN cleanDays
    /\ DeletedEvents(cleanDays) # {}
    /\ DeletedEvents(cleanDays) \subseteq events
    /\ assessments # {}

----------------------------------------------------------------------------
(* calculate_parcel_risk_assessments as a whole: the table after the run   *)
(* on table T from offset off, where the commit of the page at offset      *)
(* failAt raises                                                           *)
RECURSIVE RiskDriver(_, _, _, _, _, _, _, _)
RiskDriver(T, off, total, batch, P, rin, t, failAt) ==
    IF ~(off < total) THEN [table |-> T, raised |-> FALSE]
    ELSE LET st == UpsertPage([table |-> T, aborted |-> FALSE, processed |-> 0],
                              SelectPage(P, batch, off), P, rin, t)
         IN IF off = failAt
            THEN [table |-> CommitFailResult(T, st.table), raised |-> TRUE]
            ELSE RiskDriver(CommitResult(T, st.table, st.aborted), NextOffset(off, batch),
                            total, batch, P, rin, t, failAt)

(* The offsets of the pages of a run *)
PageOffsets(total, batch) == {k * batch : k \in 0..total} \cap (0..(total - 1))

NoFailure == 0 - 1

----------------------------------------------------------------------------
(* Properties of the Batch Risk Assessment Driver *)

(* The score fields of a table, without updated_at *)
StripUpdatedAt(T) ==
    {[parcel_id |-> r.parcel_id, assessment_date |-> r.assessment_date,
      scores |-> r.scores, facilities |-> r.facilities] : r \in T}

(* The upsert statement of parcel id pid neither raises nor selects no row *)
Computable(pid) ==
    /\ riskInput[pid] # Bad
    /\ Cardinality({p \in parcels : p.parcel_id = pid}) = 1

PageIds(off) ==
    LET page == SelectPage(parcels, batch_size, off)
    IN {page[j] : j \in 1..Len(page)}

(* pid lies in a page of the run all of whose upserts succeed *)
InCommittedPage(pid) ==
    \E k \in 0..Cardinality(parcels) :
        /\ pid \in PageIds(k * batch_size)
        /\ \A q \in PageIds(k * batch_size) : Computable(q)

(* Rows written by the current (or last) run *)
RunRows == {r \in assessments : r.updated_at = runStart}

RowsToday(T, pid, d) == {r \in T : r.parcel_id = pid /\ r.assessment_date = d}

(* C1: the assessment table holds at most one row for each                 *)
(* (parcel_id, assessment_date) pair, in every state that complete and     *)
(* failed runs of the driver can reach.                                    *)
C1_OneRowPerParcelAndDate ==
    \A r, s \in assessments : SameKey(r, s) => r = s

(* C1 witness: a run has overwritten the row a parcel had after the last   *)
(* complete run of the same day.                                           *)
C1_Witness ==
    /\ snap.valid
    /\ \E r \in assessments, o \in snap.table :
          /\ SameKey(r, o)
          /\ r.updated_at > o.updated_at
          /\ Date(o.updated_at) = r.assessment_date

C3_FailureDoesNotAbortPage ==
    (pc = "IN_PROGRESS" /\ ~changed) =>
        \A j \in 1..Len(lastPage) :
            Computable(lastPage[j]) =>
                \E r \in RunRows :
                    /\ r.parcel_id = lastPage[j]
                    /\ r.assessment_date = Date(runStart)

(* C4: when the commit of the page at `offset` raises, the run is FAILED   *)
(* at that offset with the exception raised to the caller; the pages read  *)
(* are exactly those up to that offset; rows written by the run belong to  *)
(* parcels of earlier pages only, and every earlier page whose upserts     *)
(* all succeeded has its rows.                                             *)
C4_CommitFailureIsFatal ==
    (pc = "FAILED" /\ ~changed) =>
        /\ raised
        /\ pagesRead = {k * batch_size : k \in 0..(offset \div batch_size)}
        /\ offset < total_parcels
        /\ \A r \in RunRows :
              /\ r.parcel_id \notin PageIds(offset)
              /\ \E k \in 0..(offset \div batch_size) :
                    k * batch_size < offset /\ r.parcel_id \in PageIds(k * batch_size)
        /\ \A k \in 0..(offset \div batch_size) :
              (k * batch_size < offset
                 /\ \A pid \in PageIds(k * batch_size) : Computable(pid))
              => \A pid \in PageIds(k * batch_size) :
                    \E r \in RunRows : r.parcel_id = pid

(* C4 witness: the commit of a later page, whose upserts all succeeded,    *)
(* failed after an earlier page had been committed.                        *)
C4_Witness ==
    /\ pc = "FAILED"
    /\ changed = FALSE
    /\ offset > 0
    /\ RunRows # {}
    /\ PageIds(offset) # {}
    /\ \A pid \in PageIds(offset) : Computable(pid)

(* The parcel ids of the pages read at the offsets offs, in the order of   *)
(* the offsets                                                             *)
RECURSIVE PagesRead(_)
PagesRead(offs) ==
    IF offs = {} THEN <<>>
    ELSE LET m == CHOOSE x \in offs : \A y \in offs : x <= y
         IN SelectPage(parcels, batch_size, m) \o PagesRead(offs \ {m})

(* The number of upsert statements of the run that were executed for the   *)
(* id of parcel row gp                                                     *)
Attempts(gp) ==
    LET ids == PagesRead(pagesRead)
    IN Cardinality({j \in 1..Len(ids) : ids[j] = gp.parcel_id})

(* C27 (as claimed): a complete run over an unchanged parcel table has     *)
(* read the pages at offsets 0, batch_size, 2*batch_size, ... below the    *)
(* total, in ascending parcel_id order, and has attempted every parcel     *)
(* exactly once.                                                           *)
C27_EveryParcelAttemptedOnce ==
    (pc = "COMPLETE" /\ ~changed) =>
        /\ pagesRead = PageOffsets(Cardinality(parcels), batch_size)
        /\ LET ids == PagesRead(pagesRead)
           IN \A i, j \in 1..Len(ids) : (i < j) => (ids[i] <= ids[j])
        /\ \A gp \in parcels : Attempts(gp) = 1

(* calculate_risk_score raises for no parcel of the table *)
ScoringSucceeds == \A gp \in parcels : riskInput[gp.parcel_id] # Bad

(* Parcel row gp has a row of the day of the run, computed from its geometry *)
HasOwnRow(gp) ==
    \E r \in assessments :
        /\ r.parcel_id = gp.parcel_id
        /\ r.assessment_date = Date(runStart)
        /\ r.facilities = gp.geom

(* C32 (as claimed): after a complete run over an unchanged parcel table   *)
(* in which the scoring of no parcel failed, every parcel of the table has *)
(* its own assessment row for the day of the run, computed from its own    *)
(* geometry, also when two parcels of different counties share a           *)
(* parcel_id.                                                              *)
C32_EveryParcelHasOwnRow ==
    (pc = "COMPLETE" /\ ~changed /\ ScoringSucceeds) =>
        \A gp \in parcels : HasOwnRow(gp)

(* C33 (as claimed): when a run is complete, every parcel that was in the  *)
(* table from the start of the run to its end, whatever external ingestion *)
(* inserted or deleted meanwhile, had its parcel_id in a page of the run.  *)
C33_PresentParcelsAttempted ==
    pc = "COMPLETE" =>
        \A gp \in during.stayed : gp.parcel_id \in during.attempted

(* The positions of the driver that make up IN_PROGRESS(offset) *)
InProgress == pc \in {"IN_PROGRESS", "COMMIT"}

(* The steps of the state machine of the driver *)
DriverTransition ==
    /\ batch_size >= 1
    /\ pc = "PENDING" => pc' \in {"PENDING", "IN_PROGRESS"}
    /\ pc = "IN_PROGRESS" => pc' \in {"IN_PROGRESS", "COMMIT", "COMPLETE"}
    /\ pc = "COMMIT" => pc' \in {"COMMIT", "IN_PROGRESS", "FAILED"}
    /\ (pc \in {"COMPLETE", "FAILED"} /\ pc' # pc) =>
          (pc' = "IN_PROGRESS" /\ offset' = 0)
    /\ (pc = "COMMIT" /\ pc' = "IN_PROGRESS") =>
          (offset' = offset + batch_size /\ offset' > offset)
    /\ (InProgress /\ ~(pc = "COMMIT" /\ pc' = "IN_PROGRESS")) => offset' = offset
    /\ pc' = "COMPLETE" => offset' >= total_parcels'

(* C28: the driver moves from PENDING to IN_PROGRESS, within IN_PROGRESS   *)
(* from page to page with the offset raised by batch_size >= 1 at every    *)
(* committed page and unchanged otherwise, and from IN_PROGRESS to         *)
(* COMPLETE or FAILED only; a run that is in progress eventually is        *)
(* COMPLETE or FAILED, whatever upserts fail.                              *)
C28_DriverTerminates ==
    /\ [][DriverTransition]_vars
    /\ InProgress ~> pc \in {"COMPLETE", "FAILED"}

(* C28 witness: a run over three parcels in pages of two, in which an      *)
(* upsert failed, is COMPLETE with the offset past the total.              *)
C28_Witness ==
    /\ pc = "COMPLETE"
    /\ total_parcels = 3
    /\ batch_size = 2
    /\ offset = 4
    /\ processed < total_parcels
    /\ pagesRead = {0, 2}

(* The table a single uninterrupted complete run, started when the current *)
(* run started, makes of the table the failed run found                    *)
SingleRun ==
    RiskDriver(retry.table, 0, Cardinality(parcels), batch_size, parcels,
               riskInput, runStart, NoFailure).table

(* The current run re-invoked a failed run, with parcels and scoring       *)
(* inputs unchanged, and is complete                                       *)
RerunComplete == pc = "COMPLETE" /\ retry.rerun /\ ~changed

----------------------------------------------------------------------------
(* FloridaHurricaneRiskModel                                               *)
(* (src/claimguardian-florida/models/risk/risk_model.py).                  *)
(*                                                                         *)
(* A component is a whole number of Unit-ths, a score a whole number of    *)
(* ScoreUnit-ths; the inputs lie on a grid on which every quotient of the  *)
(* code is such a number: counts, knots, years and feet are whole,         *)
(* distance_to_coast_km is given in tenths of a kilometre, just_value in   *)
(* thousands of dollars and centroid_lat in tenths of a degree.  The       *)
(* arithmetic is exact; the doubles of the code differ from it by          *)
(* rounding errors far below the distances the properties below rest on.   *)

MaxPredictions == 2

Unit == 30000
ScoreUnit == 20 * Unit

Max(a, b) == IF a >= b THEN a ELSE b

AttributeKeys ==
    {"hurricane_count_20yr", "max_wind_kts", "building_age_years", "elevation_ft",
     "distance_to_coast_km", "just_value", "centroid_lat", "county_fips"}

(* parcel_data.get(key, default) *)
Get(d, key, default) == IF key \in DOMAIN d THEN d[key] ELSE default

MonroeFips == "12087"
CharlotteFips == "12015"

(* Faulty variant: the first latitude band ends at 27.5 *)
SouthFloridaFactorOneBand(lat) ==
    IF lat < 275 THEN Unit ELSE Unit \div 2

(* line 107: 1.0 if lat < 26.5 else 0.7 if lat < 27.5 else 0.5 *)
SouthFloridaFactor(lat) ==
    IF lat < 265 THEN Unit ELSE IF lat < 275 THEN (7 * Unit) \div 10 ELSE Unit \div 2

(* line 109 *)
KeysFactor(county_fips) == IF county_fips = MonroeFips THEN Unit ELSE 0

(* calculate_risk_components, lines 85-118 *)
calculate_risk_components(d) ==
    LET hurricane_count == Get(d, "hurricane_count_20yr", 0)
        max_wind == Get(d, "max_wind_kts", 0)
        building_age == Get(d, "building_age_years", 30)
        elevation == Get(d, "elevation_ft", 10)
        distance_coast == Get(d, "distance_to_coast_km", 500)
        property_value == Get(d, "just_value", 100)
        lat == Get(d, "centroid_lat", 270)
        county_fips == Get(d, "county_fips", "12000")
    IN [hurricane_historical |-> Min(hurricane_count * (Unit \div 8), Unit),
        wind_vulnerability |-> Min(max_wind * building_age * (Unit \div 7500), Unit),
        surge_exposure |-> Max(0, Unit - elevation * (Unit \div 20)
                                       - distance_coast * (Unit \div 100)),
        economic_factor |-> Min(property_value * (Unit \div 2000), Unit),
        geographic_factor |-> Min(SouthFloridaFactor(lat) + KeysFactor(county_fips), Unit)]

(* Faulty variant: the five components weigh the same *)
FallbackScoreEqualWeights(c) ==
    4 * c.hurricane_historical + 4 * c.wind_vulnerability + 4 * c.surge_exposure
        + 4 * c.economic_factor + 4 * c.geographic_factor

(* lines 133-139: the weights 0.25, 0.25, 0.20, 0.15, 0.15 in twentieths *)
FallbackScore(c) ==
    5 * c.hurricane_historical + 5 * c.wind_vulnerability + 4 * c.surge_exposure
        + 3 * c.economic_factor + 3 * c.geographic_factor

(* Faulty variant: the score of the model is used as it is *)
ClampNone(ml_score) == ml_score

(* line 143: max(0.0, min(1.0, ml_score)) *)
Clamp(ml_score) == Max(0, Min(ScoreUnit, ml_score))

(* Faulty variant: a score on a threshold falls in the lower category *)
RiskCategoryStrict(overall_score) ==
    IF 10 * overall_score > 8 * ScoreUnit THEN "EXTREME"
    ELSE IF 10 * overall_score > 6 * ScoreUnit THEN "HIGH"
    ELSE IF 10 * overall_score > 4 * ScoreUnit THEN "MODERATE"
    ELSE IF 10 * overall_score > 2 * ScoreUnit THEN "LOW"
    ELSE "MINIMAL"

(* lines 146-155 *)
RiskCategory(overall_score) ==
    IF 10 * overall_score >= 8 * ScoreUnit THEN "EXTREME"
    ELSE IF 10 * overall_score >= 6 * ScoreUnit THEN "HIGH"
    ELSE IF 10 * overall_score >= 4 * ScoreUnit THEN "MODERATE"
    ELSE IF 10 * overall_score >= 2 * ScoreUnit THEN "LOW"
    ELSE "MINIMAL"

(* predict_risk, lines 124-163, where prediction is what self.model.predict *)
(* returns when a model is loaded; confidence is given in hundredths       *)
predict_risk(d, m, prediction) ==
    LET components == calculate_risk_components(d)
        ml_score == IF m # "none" THEN prediction ELSE FallbackScore(components)
        overall_score == Clamp(ml_score)
    IN [kind |-> "RiskScore",
        overall_score |-> overall_score,
        confidence |-> IF m # "none" THEN 85 ELSE 60,
        components |-> components,
        risk_category |-> RiskCategory(overall_score)]

(* What a trained regressor may return: values on, next to and between     *)
(* the thresholds, below 0 and above 1                                     *)
Predictions ==
    {0 - ScoreUnit \div 2, 0, (2 * ScoreUnit) \div 10, (4 * ScoreUnit) \div 10 - 1,
     (6 * ScoreUnit) \div 10, (8 * ScoreUnit) \div 10, ScoreUnit + 1}

(* The first sample parcel of demo_risk_scoring, lines 233-244 *)
MonroeScenario ==
    [hurricane_count_20yr |-> 6, max_wind_kts |-> 140, building_age_years |-> 25,
     elevation_ft |-> 8, distance_to_coast_km |-> 5, just_value |-> 800,
     centroid_lat |-> 247, county_fips |-> MonroeFips]

(* The same parcel in Charlotte county at latitude 26.9 *)
CharlotteScenario ==
    [MonroeScenario EXCEPT !.centroid_lat = 269, !.county_fips = CharlotteFips]

ScenarioParcels == {MonroeScenario, CharlotteScenario}

(* The arguments of the model *)
ParcelInputs ==
    [hurricane_count_20yr : {0 - 8, 6, 9},
     max_wind_kts : {140, 200},
     building_age_years : {0, 25, 60},
     elevation_ft : {0 - 4, 8},
     distance_to_coast_km : {5, 150},
     just_value : {800, 3000},
     centroid_lat : {247, 265, 269, 275},
     county_fips : {MonroeFips, CharlotteFips}] \cup {<<>>}

(* train_model (line 198) or load_model (line 218) sets self.model *)
TrainModel ==
    /\ model = "none"
    /\ model' = "trained"
    /\ UNCHANGED <<parcel_data, risk_score, scored>>
    /\ UNCHANGED <<now, parcels, riskInput, assessments, properties, events,
                   notifications, analytics_metrics, riskLocal, linkLocal,
                   detectLocal, cleanLocal, pipeLocal, statLocal, fetchLocal>>

(* risk_score = model.predict_risk(parcel_data) *)
PredictRisk ==
    /\ Cardinality(scored) < MaxPredictions
    /\ \E prediction \in IF model = "none" THEN {0} ELSE Predictions :
          /\ risk_score' = predict_risk(parcel_data, model, prediction)
          /\ scored' = scored \cup {[input |-> parcel_data, trained |-> model # "none",
                                     ml_score |-> IF model = "none"
                                                  THEN FallbackScore(calculate_risk_components(parcel_data))
                                                  ELSE prediction,
                                     score |-> risk_score']}
    /\ UNCHANGED <<parcel_data, model>>
    /\ UNCHANGED <<now, parcels, riskInput, assessments, properties, events,
                   notifications, analytics_metrics, riskLocal, linkLocal,
                   detectLocal, cleanLocal, pipeLocal, statLocal, fetchLocal>>

(* for parcel_data in sample_parcels (line 259): the caller goes on with   *)
(* another parcel                                                          *)
NextParcel ==
    /\ risk_score # NoResult
    /\ Cardinality(scored) < MaxPredictions
    /\ \E d \in ScenarioParcels :
          /\ d # parcel_data
          /\ parcel_data' = d
    /\ risk_score' = NoResult
    /\ UNCHANGED <<model, scored>>
    /\ UNCHANGED <<now, parcels, riskInput, assessments, properties, events,
                   notifications, analytics_metrics, riskLocal, linkLocal,
                   detectLocal, cleanLocal, pipeLocal, statLocal, fetchLocal>>

InitScore ==
    /\ now = 0
    /\ parcels = {}
    /\ assessments = {}
    /\ events = {}
    /\ notifications = EmptyBag
    /\ properties = <<>>
    /\ InitRiskIdle
    /\ InitLinkIdle
    /\ InitDetectIdle
    /\ InitCleanIdle
    /\ InitPipeIdle
    /\ InitStatsIdle
    /\ InitFetchIdle
    /\ parcel_data \in ParcelInputs
    /\ model = "none"
    /\ risk_score = NoResult
    /\ scored = {}

NextScore ==
    \/ TrainModel
    \/ PredictRisk
    \/ NextParcel

SpecScore == InitScore /\ [][NextScore]_vars

(* Attributes a parcel can have: counts, speeds, ages, distances and values *)
(* are not negative; an elevation is signed.                                *)
ValidAttributes(d) ==
    /\ Get(d, "hurricane_count_20yr", 0) >= 0
    /\ Get(d, "max_wind_kts", 0) >= 0
    /\ Get(d, "building_age_years", 30) >= 0
    /\ Get(d, "distance_to_coast_km", 500) >= 0
    /\ Get(d, "just_value", 100) >= 0

InUnitInterval(x) == 0 <= x /\ x <= Unit

(* A component to three decimals, a score to four *)
Round3(x) == (x + Unit \div 2000) \div (Unit \div 1000)
Round4(x) == (x + ScoreUnit \div 20000) \div (ScoreUnit \div 10000)

(* C14 (as claimed): for valid attributes each of the five components      *)
(* returned lies in [0, 1].                                                *)
C14_ComponentsInUnitInterval ==
    \A s \in scored :
        ValidAttributes(s.input) =>
            /\ InUnitInterval(s.score.components.hurricane_historical)
            /\ InUnitInterval(s.score.components.wind_vulnerability)
            /\ InUnitInterval(s.score.components.surge_exposure)
            /\ InUnitInterval(s.score.components.economic_factor)
            /\ InUnitInterval(s.score.components.geographic_factor)

(* C15: the overall_score returned lies in [0, 1] for every input, with    *)
(* the fallback average and with a model whose prediction lies outside.    *)
C15_OverallScoreClamped ==
    \A s \in scored :
        /\ 0 <= s.score.overall_score
        /\ s.score.overall_score <= ScoreUnit

(* C15 witness: a model has predicted a value below 0 for one parcel and a *)
(* value above 1 for another.                                              *)
C15_Witness ==
    \E a, b \in scored :
        /\ a.trained /\ a.ml_score < 0 /\ a.score.overall_score = 0
        /\ b.trained /\ b.ml_score > ScoreUnit /\ b.score.overall_score = ScoreUnit

(* C16: the category is EXTREME iff score >= 0.8, HIGH iff                 *)
(* 0.6 <= score < 0.8, MODERATE iff 0.4 <= score < 0.6, LOW iff            *)
(* 0.2 <= score < 0.4 and MINIMAL iff score < 0.2; parcels with the same   *)
(* score have the same category.                                           *)
C16_CategoryByThresholds ==
    /\ \A s \in scored :
          LET x == 10 * s.score.overall_score
              c == s.score.risk_category
          IN /\ c = "EXTREME" <=> x >= 8 * ScoreUnit
             /\ c = "HIGH" <=> (6 * ScoreUnit <= x /\ x < 8 * ScoreUnit)
             /\ c = "MODERATE" <=> (4 * ScoreUnit <= x /\ x < 6 * ScoreUnit)
             /\ c = "LOW" <=> (2 * ScoreUnit <= x /\ x < 4 * ScoreUnit)
             /\ c = "MINIMAL" <=> x < 2 * ScoreUnit
    /\ \A a, b \in scored :
          a.score.overall_score = b.score.overall_score
              => a.score.risk_category = b.score.risk_category

(* C16 witness: two different parcels were scored exactly 0.8 and are      *)
(* EXTREME.                                                                *)
C16_Witness ==
    \E a, b \in scored :
        /\ a.input # b.input
        /\ 10 * a.score.overall_score = 8 * ScoreUnit
        /\ 10 * b.score.overall_score = 8 * ScoreUnit
        /\ a.score.risk_category = "EXTREME"
        /\ b.score.risk_category = "EXTREME"

(* The components the scenario names, to three decimals *)
ScenarioComponents(s) ==
    /\ Round3(s.score.components.hurricane_historical) = 750
    /\ Round3(s.score.components.wind_vulnerability) = 467
    /\ Round3(s.score.components.surge_exposure) = 550
    /\ Round3(s.score.components.economic_factor) = 400
    /\ Round3(s.score.components.geographic_factor) = 1000

(* C17 (amended): for the Monroe parcel of the scenario and no trained     *)
(* model the components are 0.75, 0.467, 0.55, 0.4 and 1.0, the fallback   *)
(* composite is 0.6242 and the category is HIGH.                           *)
C17_MonroeScenarioIsHigh ==
    \A s \in scored :
        (s.input = MonroeScenario /\ ~s.trained) =>
            /\ ScenarioComponents(s)
            /\ Round4(s.ml_score) = 6242
            /\ Round4(s.score.overall_score) = 6242
            /\ s.score.risk_category = "HIGH"

(* C17 witness: the Monroe parcel was scored without a model *)
C17_Witness ==
    \E s \in scored : s.input = MonroeScenario /\ ~s.trained

(* C17 (as claimed): ... the fallback composite is 0.5343 and the category *)
(* is MODERATE.                                                            *)
C17_MonroeScenarioIsModerate ==
    \A s \in scored :
        (s.input = MonroeScenario /\ ~s.trained) =>
            /\ ScenarioComponents(s)
            /\ Round4(s.score.overall_score) = 5343
            /\ s.score.risk_category = "MODERATE"

(* C18: geographic_factor is min(south_florida_factor + keys_factor, 1):   *)
(* 1.0 for a Monroe parcel at every latitude, otherwise 1.0 below 26.5,    *)
(* 0.7 from 26.5 to below 27.5 and 0.5 from 27.5; the Charlotte parcel at  *)
(* 26.9 gets 0.7, and with the other inputs of the Monroe scenario its     *)
(* category differs from that of the Monroe parcel.                        *)
C18_GeographicFactor ==
    /\ \A s \in scored :
          LET lat == Get(s.input, "centroid_lat", 270)
              monroe == Get(s.input, "county_fips", "12000") = MonroeFips
              g == s.score.components.geographic_factor
          IN /\ monroe => g = Unit
             /\ (~monroe /\ lat < 265) => g = Unit
             /\ (~monroe /\ 265 <= lat /\ lat < 275) => 10 * g = 7 * Unit
             /\ (~monroe /\ 275 <= lat) => 2 * g = Unit
             /\ s.input = CharlotteScenario => 10 * g = 7 * Unit
    /\ \A a, b \in scored :
          (a.input = MonroeScenario /\ b.input = CharlotteScenario
              /\ ~a.trained /\ ~b.trained)
          => a.score.risk_category # b.score.risk_category

(* C18 witness: both parcels of the scenario were scored without a model *)
C18_Witness ==
    \E a, b \in scored :
        /\ a.input = MonroeScenario /\ ~a.trained
        /\ b.input = CharlotteScenario /\ ~b.trained

----------------------------------------------------------------------------
(* generate_risk_statistics: a summary row holds the joined rows its       *)
(* aggregates are computed from                                            *)

(* lines 279-282: parcels JOIN assessments ON parcel_id, of today *)
CountyJoin(P, T, t) ==
    {<<p, r>> \in P \X T : p.parcel_id = r.parcel_id /\ r.assessment_date = Date(t)}

(* The bounds of the tiers of lines 272-274, in tenths *)
HighRiskTenths == 7
LowRiskTenths == 3

(* composite_risk_score of an assessment row, in tenths: the composite     *)
(* risk calculate_risk_score returned                                      *)
CompositeTenths(r) == r.scores

(* composite_risk_score > 0.7 *)
HighRisk(x) == x > HighRiskTenths

(* Faulty variant: BETWEEN without its bounds *)
MediumRiskExclusive(x) == LowRiskTenths < x /\ x < HighRiskTenths

(* composite_risk_score BETWEEN 0.3 AND 0.7 *)
MediumRisk(x) == LowRiskTenths <= x /\ x <= HighRiskTenths

(* composite_risk_score < 0.3 *)
LowRisk(x) == x < LowRiskTenths

(* lines 271-276: jsonb_build_object over the joined rows J of a group;    *)
(* field "of" holds the rows the aggregates are computed from              *)
CountyMetricValue(J) ==
    [of |-> J,
     high_risk_count |-> Cardinality({j \in J : HighRisk(CompositeTenths(j[2]))}),
     medium_risk_count |-> Cardinality({j \in J : MediumRisk(CompositeTenths(j[2]))}),
     low_risk_count |-> Cardinality({j \in J : LowRisk(CompositeTenths(j[2]))})]

(* Faulty variant: the county summary without GROUP BY *)
CountySummaryRowsUngrouped(P, T, t) ==
    {[metric_type |-> "risk_assessment", metric_name |-> "county_risk_summary",
      metric_value |-> CountyMetricValue({j}), dimensions |-> j[1].county_name,
      timestamp |-> t]
        : j \in CountyJoin(P, T, t)}

(* lines 260-283: one row per county_name of the join *)
CountySummaryRows(P, T, t) ==
    {[metric_type |-> "risk_assessment", metric_name |-> "county_risk_summary",
      metric_value |-> CountyMetricValue({j \in CountyJoin(P, T, t) : j[1].county_name = c}),
      dimensions |-> c, timestamp |-> t]
        : c \in {j[1].county_name : j \in CountyJoin(P, T, t)}}

(* lines 286-309: the aggregate without GROUP BY yields one row *)
PortfolioSummaryRow(props, T, t) ==
    [metric_type |-> "risk_assessment", metric_name |-> "portfolio_risk_summary",
     metric_value |-> {<<i, r>> \in (DOMAIN props) \X T :
                          props[i].parcel_id = r.parcel_id /\ r.assessment_date = Date(t)},
     dimensions |-> "none", timestamp |-> t]

StatisticsRows(P, props, T, t) ==
    SetToBag(CountySummaryRows(P, T, t) \cup {PortfolioSummaryRow(props, T, t)})

MaxStatsRuns == 2
MaxStatsDay == 1

(* The rows of the first INSERT; SetToBag as every row of a statement is   *)
(* a row of its own                                                        *)
CountyInsert(P, T, t) == SetToBag(CountySummaryRows(P, T, t))

(* The counties with a parcel that has an assessment dated d *)
CountiesAssessedOn(d) ==
    {c \in Counties : \E gp \in parcels, r \in assessments :
        /\ gp.county_name = c
        /\ gp.parcel_id = r.parcel_id
        /\ r.assessment_date = d}

StatsRun(outcome, counties, before) ==
    [outcome |-> outcome, counties |-> counties, before |-> before]

(* lines 257-283: connect and execute the first INSERT, which opens the    *)
(* transaction; CURRENT_TIMESTAMP and CURRENT_DATE are those of its start  *)
StatsCounty ==
    /\ spc = "idle"
    /\ statsRuns < MaxStatsRuns
    /\ statsRuns' = statsRuns + 1
    /\ sstart' = now
    /\ stx' = CountyInsert(parcels, assessments, now)
    /\ spc' = "county"
    /\ slast' = StatsRun("open", CountiesAssessedOn(CURRENT_DATE), analytics_metrics)
    /\ UNCHANGED <<now, parcels, riskInput, assessments, properties, events,
                   notifications, analytics_metrics, riskLocal, linkLocal,
                   detectLocal, cleanLocal, pipeLocal, scoreLocal,
                   fetchLocal>>

(* lines 286-309: the second INSERT, in the same transaction *)
StatsPortfolio ==
    /\ spc = "county"
    /\ stx' = stx (+) SetToBag({PortfolioSummaryRow(properties, assessments, sstart)})
    /\ spc' = "portfolio"
    /\ UNCHANGED <<now, parcels, riskInput, assessments, properties, events,
                   notifications, analytics_metrics, sstart, statsRuns, slast,
                   riskLocal, linkLocal, detectLocal, cleanLocal, pipeLocal, scoreLocal,
                   fetchLocal>>

(* Faulty variant: the table is replaced by the rows of the run *)
StatsCommitReplaces(committed, rows) == rows

StatsCommitResult(committed, rows) == committed (+) rows

(* line 311: conn.commit() *)
StatsCommit ==
    /\ spc = "portfolio"
    /\ analytics_metrics' = StatsCommitResult(analytics_metrics, stx)
    /\ stx' = EmptyBag
    /\ spc' = "idle"
    /\ slast' = [slast EXCEPT !.outcome = "committed"]
    /\ UNCHANGED <<now, parcels, riskInput, assessments, properties, events,
                   notifications, sstart, statsRuns, riskLocal, linkLocal,
                   detectLocal, cleanLocal, pipeLocal, scoreLocal,
                   fetchLocal>>

(* An INSERT or the commit raises: the with block of line 257 rolls back *)
StatsFail ==
    /\ spc \in {"county", "portfolio"}
    /\ stx' = EmptyBag
    /\ spc' = "idle"
    /\ slast' = [slast EXCEPT !.outcome = "failed"]
    /\ UNCHANGED <<now, parcels, riskInput, assessments, properties, events,
                   notifications, analytics_metrics, sstart, statsRuns, riskLocal,
                   linkLocal, detectLocal, cleanLocal, pipeLocal, scoreLocal,
                   fetchLocal>>

(* Charlotte and Monroe both have a parcel 1, assessed or not before       *)
(* Monroe's was ingested; a property is linked to it                       *)
StatsParcels ==
    {ParcelRow("Charlotte", 1, <<>>, {1}), ParcelRow("Monroe", 1, <<>>, {2}),
     ParcelRow("Monroe", 2, <<>>, {3})}

(* A day passes *)
StatsTick ==
    /\ now + HoursPerDay <= MaxStatsDay * HoursPerDay
    /\ now' = now + HoursPerDay
    /\ UNCHANGED <<parcels, riskInput, assessments, properties, events,
                   notifications, analytics_metrics, riskLocal, linkLocal,
                   detectLocal, cleanLocal, pipeLocal, scoreLocal, statLocal, fetchLocal>>

(* The risk driver commits a page of one parcel id *)
StatsAssess ==
    /\ \E i \in ParcelIds :
          LET st == UpsertParcel([table |-> assessments, aborted |-> FALSE,
                                  processed |-> 0], i, parcels, riskInput, now)
          IN assessments' = CommitResult(assessments, st.table, st.aborted)
    /\ UNCHANGED <<now, parcels, riskInput, properties, events, notifications,
                   analytics_metrics, riskLocal, linkLocal, detectLocal,
                   cleanLocal, pipeLocal, scoreLocal, statLocal, fetchLocal>>

(* The composite risks of the model, in tenths: on, below and above the   *)
(* bounds of the tiers                                                     *)
StatsScores == {LowRiskTenths - 1, LowRiskTenths, HighRiskTenths, HighRiskTenths + 1}

InitStats ==
    /\ now = 0
    /\ parcels = StatsParcels
    /\ riskInput \in [ParcelIds -> StatsScores]
    /\ assessments \in {{}, {AssessmentRow(1, 0, ParcelRow("Charlotte", 1, <<>>, {1}),
                                           riskInput[1], 0)}}
    /\ events = {}
    /\ notifications = EmptyBag
    /\ properties \in {<<PropertyRow(1, "Charlotte", 1), PropertyRow(2, "Monroe", i)>>
                          : i \in {NULL, 1}}
    /\ batch_size = 1
    /\ InitDriverIdle
    /\ InitLinkIdle
    /\ InitDetectIdle
    /\ InitCleanIdle
    /\ InitPipeIdle
    /\ InitScoreIdle
    /\ InitStatsIdle
    /\ InitFetchIdle

NextStats ==
    \/ StatsCounty
    \/ StatsPortfolio
    \/ StatsCommit
    \/ StatsFail
    \/ StatsTick
    \/ StatsAssess

SpecStats == InitStats /\ [][NextStats]_vars

(* A step of generate_risk_statistics *)
StatsStep == spc' # spc

(* C23: every step leaves in the metrics table each row it held, as often  *)
(* as it held it; the steps of generate_risk_statistics change no row of   *)
(* the assessment, parcel and property tables.                             *)
C23_StatisticsAppendOnly ==
    [][/\ analytics_metrics \sqsubseteq analytics_metrics'
       /\ StatsStep => UNCHANGED <<assessments, parcels, properties>>]_vars

(* C23 witness: a second run has committed rows next to those of the first *)
C23_Witness ==
    /\ statsRuns = 2
    /\ slast.outcome = "committed"
    /\ slast.before # EmptyBag
    /\ analytics_metrics # slast.before
    /\ assessments # {}

(* The number of rows of bag B with the given name and county tag *)
MetricRows(B, name, tag) ==
    LET rows == {m \in BagToSet(B) : m.metric_name = name /\ m.dimensions = tag}
    IN BagCardinality([m \in rows |-> CopiesIn(m, B)])

(* C24: the metrics table changes only by the commit of a run, which adds  *)
(* one county_risk_summary row for each county that had an assessment of   *)
(* the day when the run began, one portfolio_risk_summary row and nothing  *)
(* else; a run that fails adds nothing.                                    *)
C24_OneRowPerCountyAndPortfolio ==
    [][/\ analytics_metrics' # analytics_metrics => slast'.outcome = "committed" /\ StatsStep
       /\ (StatsStep /\ slast'.outcome = "committed") =>
             LET added == analytics_metrics' (-) analytics_metrics
             IN /\ analytics_metrics' = analytics_metrics (+) added
                /\ \A c \in Counties :
                      MetricRows(added, "county_risk_summary", c)
                          = IF c \in slast.counties THEN 1 ELSE 0
                /\ MetricRows(added, "portfolio_risk_summary", "none") = 1
                /\ BagCardinality(added) = Cardinality(slast.counties) + 1
                /\ \A m \in BagToSet(added) : m.timestamp = sstart]_vars

(* C24 witness: a run has committed a row for each of two counties and the *)
(* portfolio row, and an earlier run had failed after its first INSERT     *)
(* without leaving a row.                                                  *)
C24_Witness ==
    /\ slast.outcome = "committed"
    /\ slast.counties = Counties
    /\ slast.before = EmptyBag
    /\ statsRuns = 2
    /\ BagCardinality(analytics_metrics) = 3

(* The assessments dated today of the parcel ids of county c *)
CountyAssessmentsToday(c) ==
    {r \in assessments :
        /\ r.assessment_date = CURRENT_DATE
        /\ \E gp \in parcels : gp.county_name = c /\ gp.parcel_id = r.parcel_id}

(* The first INSERT of a run executes *)
StatsCountyStep == spc = "idle" /\ spc' = "county"

(* C31: in every county_risk_summary row a run builds, high_risk_count is  *)
(* the number of the county's assessments of today with a composite score  *)
(* above 0.7, medium_risk_count of those from 0.3 to 0.7, both bounds      *)
(* included, low_risk_count of those below 0.3; the three counts add up to *)
(* the number of the county's assessments of today, and the commit adds    *)
(* the rows as they were built.                                            *)
C31_TierCountsPartition ==
    [][/\ StatsCountyStep =>
            \A m \in BagToSet(stx') :
               LET A == CountyAssessmentsToday(m.dimensions)
                   v == m.metric_value
               IN /\ v.high_risk_count = Cardinality({r \in A : r.scores > 7})
                  /\ v.medium_risk_count
                        = Cardinality({r \in A : r.scores >= 3 /\ r.scores <= 7})
                  /\ v.low_risk_count = Cardinality({r \in A : r.scores < 3})
                  /\ v.high_risk_count + v.medium_risk_count + v.low_risk_count
                        = Cardinality(A)
       /\ (StatsStep /\ slast'.outcome = "committed") =>
            analytics_metrics' = analytics_metrics (+) stx]_vars

(* C31 witness: a committed row of Monroe counts two assessments, one on   *)
(* each bound, as medium                                                   *)
C31_Witness ==
    \E m \in BagToSet(analytics_metrics) :
        /\ m.metric_name = "county_risk_summary"
        /\ m.dimensions = "Monroe"
        /\ m.metric_value.medium_risk_count = 2
        /\ m.metric_value.high_risk_count = 0
        /\ m.metric_value.low_risk_count = 0
        /\ {j[2].scores : j \in m.metric_value.of} = {LowRiskTenths, HighRiskTenths}

----------------------------------------------------------------------------
(* run_full_pipeline.  A stage is one step: it commits its effect and      *)
(* returns, or raises an exception.                                        *)

MaxPipelineRuns == 2

ActiveEventsRetentionDays == 30
RiskAssessmentsRetentionDays == 365

StageOrder ==
    <<"update_property_parcel_links", "calculate_parcel_risk_assessments",
      "detect_active_event_impacts", "generate_risk_statistics", "cleanup_old_data">>

(* str(e) of the exceptions of the model *)
Errors == {"connection refused", "statement timeout"}

StageIndex(stage) == CHOOSE k \in 1..Len(StageOrder) : StageOrder[k] = stage

(* lines 322-339: the statement after the call of stage *)
AfterReturn(stage) ==
    IF StageIndex(stage) < Len(StageOrder)
    THEN StageOrder[StageIndex(stage) + 1] ELSE "log_success"

(* Faulty variant: the exception of a stage is swallowed *)
AfterRaiseContinue(stage) == AfterReturn(stage)

(* line 363: an exception in the try block enters the except clause *)
AfterRaise(stage) == "except"

(* Faulty variant: every stage rewrites the parcel table *)
StageTargetsWithParcels(stage) == {"geospatial.parcels"}

(* The tables the statements of a stage insert into, update or delete from *)
StageTargets(stage) ==
    CASE stage = "update_property_parcel_links" -> {"public.properties"}
      [] stage = "calculate_parcel_risk_assessments" -> {"geospatial.parcel_risk_assessment"}
      [] stage = "detect_active_event_impacts" -> {"public.notifications"}
      [] stage = "generate_risk_statistics" -> {"public.analytics_metrics"}
      [] stage = "cleanup_old_data" ->
            {"geospatial.active_events", "geospatial.parcel_risk_assessment"}

(* The parcel table after the statements of a stage *)
ParcelsAfter(stage) ==
    IF "geospatial.parcels" \in StageTargets(stage)
    THEN parcels' \in SUBSET parcels
    ELSE parcels' = parcels

(* lines 334-337 *)
PipelineRetention ==
    [active_events |-> ActiveEventsRetentionDays,
     risk_assessments |-> RiskAssessmentsRetentionDays]

(* lines 317-320 *)
PipeStart ==
    /\ opc = "idle"
    /\ pipelineRuns < MaxPipelineRuns
    /\ pipelineRuns' = pipelineRuns + 1
    /\ now' = now + TickHours
    /\ opc' = StageOrder[1]
    /\ started' = <<>>
    /\ returned' = <<>>
    /\ exc' = "none"
    /\ stage_error' = "none"
    /\ result' = NoResult
    /\ run_logs' = <<>>
    /\ UNCHANGED <<parcels, riskInput, assessments, properties, events, notifications,
                   analytics_metrics, system_logs, outcomes,
                   riskLocal, linkLocal, detectLocal, cleanLocal, scoreLocal, statLocal, fetchLocal>>

(* The call of stage returns *)
StageReturns(stage) ==
    /\ opc = stage
    /\ started' = Append(started, stage)
    /\ returned' = Append(returned, stage)
    /\ opc' = AfterReturn(stage)
    /\ ParcelsAfter(stage)
    /\ UNCHANGED <<now, riskInput, exc, stage_error, result, pipelineRuns,
                   run_logs, system_logs, outcomes, riskLocal, detectLocal, cleanLocal,
                   scoreLocal, statLocal, fetchLocal>>

(* The call of stage raises e *)
StageRaises(stage, e) ==
    /\ opc = stage
    /\ started' = Append(started, stage)
    /\ returned' = returned
    /\ exc' = e
    /\ stage_error' = e
    /\ opc' = AfterRaise(stage)
    /\ ParcelsAfter(stage)
    /\ UNCHANGED <<now, riskInput, result, pipelineRuns, run_logs, system_logs,
                   outcomes, riskLocal, detectLocal, cleanLocal, scoreLocal, statLocal, fetchLocal>>

(* line 322: self.update_property_parcel_links() *)
PipeLink ==
    \/ /\ StageReturns(StageOrder[1])
       /\ LinkUpdate
       /\ UNCHANGED <<assessments, events, notifications, analytics_metrics>>
    \/ /\ \E e \in Errors : StageRaises(StageOrder[1], e)
       /\ UNCHANGED <<assessments, properties, events, notifications,
                      analytics_metrics, linkLocal>>

(* line 325: self.calculate_parcel_risk_assessments() *)
PipeRisk ==
    \E failAt \in PageOffsets(Cardinality(parcels), batch_size) \cup {NoFailure} :
        LET run == RiskDriver(assessments, 0, Cardinality(parcels), batch_size,
                              parcels, riskInput, now, failAt)
        IN /\ assessments' = run.table
           /\ IF run.raised
              THEN \E e \in Errors : StageRaises(StageOrder[2], e)
              ELSE StageReturns(StageOrder[2])
           /\ UNCHANGED <<properties, events, notifications, analytics_metrics, linkLocal>>

(* line 328: self.detect_active_event_impacts() *)
PipeEvents ==
    \/ /\ StageReturns(StageOrder[3])
       /\ notifications' = notifications (+)
             InsertedRows(AffectedProperties(events, parcels, properties),
                          properties, notifications, now)
       /\ UNCHANGED <<assessments, properties, events, analytics_metrics, linkLocal>>
    \/ /\ \E e \in Errors : StageRaises(StageOrder[3], e)
       /\ UNCHANGED <<assessments, properties, events, notifications,
                      analytics_metrics, linkLocal>>

(* line 331: self.generate_risk_statistics() *)
PipeStats ==
    \/ /\ StageReturns(StageOrder[4])
       /\ analytics_metrics' = StatsCommitResult(analytics_metrics,
             StatisticsRows(parcels, properties, assessments, now))
       /\ UNCHANGED <<assessments, properties, events, notifications, linkLocal>>
    \/ /\ \E e \in Errors : StageRaises(StageOrder[4], e)
       /\ UNCHANGED <<assessments, properties, events, notifications,
                      analytics_metrics, linkLocal>>

(* lines 334-337: self.cleanup_old_data({...}) *)
PipeCleanup ==
    \/ /\ StageReturns(StageOrder[5])
       /\ events' = events \ DeletedEvents(PipelineRetention)
       /\ assessments' = assessments \ DeletedAssessments(PipelineRetention)
       /\ UNCHANGED <<properties, notifications, analytics_metrics, linkLocal>>
    \/ /\ \E e \in Errors : StageRaises(StageOrder[5], e)
       /\ UNCHANGED <<assessments, properties, events, notifications,
                      analytics_metrics, linkLocal>>

SystemLogRow(level, message, error, t) ==
    [level |-> level, message |-> message, error |-> error, created_at |-> t]

(* What a finished run leaves to its caller and in the system log: how it  *)
(* ended and the rows it logged, without their timestamps                  *)
Observable(res, logs) ==
    [result |-> res,
     logs |-> [j \in 1..Len(logs) |->
                  [level |-> logs[j].level, message |-> logs[j].message,
                   error |-> logs[j].error]]]

(* The run ends with result res after logging the rows logs *)
PipeEnds(res, logs) ==
    /\ result' = res
    /\ run_logs' = logs
    /\ system_logs' = system_logs \o logs
    /\ outcomes' = outcomes \cup {[completed |-> returned,
                                   observable |-> Observable(res, logs)]}
    /\ opc' = "idle"

(* lines 339-361: the success record is committed and the method returns,  *)
(* or the logging raises inside the try block                              *)
PipeLogSuccess ==
    /\ opc = "log_success"
    /\ \/ /\ PipeEnds([kind |-> "returned"],
                      <<SystemLogRow("info",
                                     "Geospatial ETL pipeline completed successfully",
                                     "none", now)>>)
          /\ exc' = exc
       \/ /\ \E e \in Errors : exc' = e
          /\ opc' = "except"
          /\ UNCHANGED <<result, run_logs, system_logs, outcomes>>
    /\ UNCHANGED <<now, parcels, riskInput, assessments, properties, events,
                   notifications, analytics_metrics, started, returned, stage_error,
                   pipelineRuns, riskLocal, linkLocal, detectLocal, cleanLocal,
                   scoreLocal, statLocal, fetchLocal>>

(* lines 363-387: the error record is committed and the exception is       *)
(* raised again, or the logging raises and its exception leaves the method *)
PipeLogError ==
    /\ opc = "except"
    /\ \/ PipeEnds([kind |-> "raised", error |-> exc],
                   <<SystemLogRow("error", "Geospatial ETL pipeline failed", exc, now)>>)
       \/ \E e \in Errors : PipeEnds([kind |-> "raised", error |-> e], <<>>)
    /\ UNCHANGED <<now, parcels, riskInput, assessments, properties, events,
                   notifications, analytics_metrics, started, returned, exc,
                   stage_error, pipelineRuns, riskLocal, linkLocal, detectLocal,
                   cleanLocal, scoreLocal, statLocal, fetchLocal>>

(* The tables of the runs of the pipeline: the parcels of Charlotte, the   *)
(* first with the address of the unlinked property; scoring that succeeds, *)
(* or fails for the first parcel; an event over the first parcel, active   *)
(* or ended long ago; an old assessment                                    *)
PipelineParcels ==
    {ParcelRow("Charlotte", i, IF i = 1 THEN AddrExact ELSE AddrOther, {i})
        : i \in ParcelIds}

InitPipeline ==
    /\ now = 0
    /\ parcels = PipelineParcels
    /\ riskInput \in {[i \in ParcelIds |-> 1],
                      [i \in ParcelIds |-> IF i = 1 THEN Bad ELSE 1]}
    /\ assessments = {AssessmentRow(1, 0 - (RiskAssessmentsRetentionDays + 1),
                                    ParcelRow("Charlotte", 1, AddrExact, {1}), 1,
                                    0 - (RiskAssessmentsRetentionDays + 1) * HoursPerDay)}
    /\ properties = <<PropertyRow(1, "Charlotte", NULL)>>
    /\ events \in {{EventRow(1, "active", 0, {1})},
                   {EventRow(1, "inactive",
                             0 - (ActiveEventsRetentionDays + 1) * HoursPerDay, {1})}}
    /\ notifications = EmptyBag
    /\ batch_size \in 1..MaxBatch
    /\ InitDriverIdle
    /\ InitLinkIdle
    /\ InitDetectIdle
    /\ InitCleanIdle
    /\ InitPipeIdle
    /\ InitScoreIdle
    /\ InitStatsIdle
    /\ InitFetchIdle

NextPipeline ==
    \/ PipeStart
    \/ PipeLink
    \/ PipeRisk
    \/ PipeEvents
    \/ PipeStats
    \/ PipeCleanup
    \/ PipeLogSuccess
    \/ PipeLogError

SpecPipeline == InitPipeline /\ [][NextPipeline]_vars

IsPrefix(a, b) == Len(a) <= Len(b) /\ a = SubSeq(b, 1, Len(a))

StageNames == {StageOrder[k] : k \in 1..Len(StageOrder)}

(* C11: the stages a run has invoked are the first stages of the fixed     *)
(* order, each once; all of them but possibly the last have returned       *)
(* normally, and a stage is about to be invoked only when all the stages   *)
(* before it have returned.                                                *)
C11_StagesInOrderOnce ==
    /\ IsPrefix(started, StageOrder)
    /\ IsPrefix(returned, started)
    /\ Len(started) <= Len(returned) + 1
    /\ opc \in StageNames =>
          /\ returned = started
          /\ opc = StageOrder[Len(started) + 1]

(* C11 witness: a run has invoked all five stages, another has stopped     *)
(* after a failure of the third.                                           *)
C11_Witness ==
    /\ opc = "idle"
    /\ Len(started) = 3
    /\ Len(returned) = 2
    /\ \E o \in outcomes : o.completed = StageOrder

(* C25: no step of a run of the pipeline, whether its stages return or     *)
(* raise, changes the parcel table.                                        *)
C25_ParcelTableUntouched == [][parcels' = parcels]_vars

(* C25 witness: a run in which all five stages returned has linked the     *)
(* property, written today's assessments, a notification and metrics and   *)
(* deleted the old assessment, and the parcel table is the initial one.    *)
C25_Witness ==
    /\ opc = "idle"
    /\ returned = StageOrder
    /\ properties[1].parcel_id # NULL
    /\ \A r \in assessments : r.assessment_date = CURRENT_DATE
    /\ Cardinality(assessments) = Cardinality(parcels)
    /\ notifications # EmptyBag
    /\ analytics_metrics # EmptyBag
    /\ parcels = PipelineParcels

(* A step of the except clause, or the step by which a stage raises *)
FailureStep == opc = "except" \/ (opc \in StageNames /\ opc' = "except")

(* C26: when a run has ended by the exception of a stage, what the stages  *)
(* that returned before it committed is in the tables: no property that    *)
(* matches a parcel is unlinked, every parcel of a page without a failing  *)
(* upsert has its assessment of this run, every affected property has its  *)
(* notification, the metrics hold the portfolio row of this run; the       *)
(* steps of a failure change no table, but for the pages a failing risk    *)
(* assessment had committed.                                               *)
C26_EarlierStagesStayCommitted ==
    /\ []((opc = "idle" /\ result # NoResult /\ stage_error # "none") =>
            /\ Len(returned) >= 1 => LinkTargets(properties, parcels) = {}
            /\ Len(returned) >= 2 =>
                  \A pid \in ParcelIds : InCommittedPage(pid) =>
                      \E r \in assessments :
                          /\ r.parcel_id = pid
                          /\ r.assessment_date = CURRENT_DATE
                          /\ r.updated_at = now
            /\ Len(returned) >= 3 => Qualifying = EmptyBag
            /\ Len(returned) >= 4 =>
                  \E m \in BagToSet(analytics_metrics) :
                      m.metric_name = "portfolio_risk_summary" /\ m.timestamp = now)
    /\ [][FailureStep =>
            /\ UNCHANGED <<parcels, properties, events, notifications, analytics_metrics>>
            /\ opc # StageOrder[2] => assessments' = assessments
            /\ \A r \in assessments : \E q \in assessments' : SameKey(r, q)]_vars

(* C26 witness: a run failed in Statistics after linkage had linked the    *)
(* property, risk assessment had written today's rows and event detection  *)
(* a notification of the linked property.                                  *)
C26_Witness ==
    /\ opc = "idle"
    /\ result # NoResult
    /\ stage_error # "none"
    /\ Len(returned) = 3
    /\ properties[1].parcel_id # NULL
    /\ \E r \in assessments : r.assessment_date = CURRENT_DATE
    /\ notifications # EmptyBag
    /\ analytics_metrics = EmptyBag

(* The levels of the records the finished run committed *)
LoggedLevels == {run_logs[j].level : j \in 1..Len(run_logs)}

(* C35 (as claimed): a finished run has committed an error record only if  *)
(* one of its stages raised; a run whose five stages returned has          *)
(* committed no error record and has returned to its caller; no run has    *)
(* committed both a success record and an error record.                    *)
C35_ErrorRecordOnlyOnStageFailure ==
    (opc = "idle" /\ result # NoResult) =>
        /\ "error" \in LoggedLevels => stage_error # "none"
        /\ Len(returned) = Len(StageOrder) =>
              ("error" \notin LoggedLevels /\ result.kind = "returned")
        /\ ~({"info", "error"} \subseteq LoggedLevels)

(* C12 (as claimed): a run in which a stage raised ends with exactly one   *)
(* error record in the system log, naming the stage's exception, with      *)
(* that exception raised to the caller, and without having invoked a       *)
(* later stage.                                                            *)
C12_FailureLoggedAndReraised ==
    (opc = "idle" /\ stage_error # "none") =>
        /\ Len(run_logs) = 1
        /\ run_logs[1].level = "error"
        /\ run_logs[1].error = stage_error
        /\ result = [kind |-> "raised", error |-> stage_error]
        /\ Len(started) = Len(returned) + 1

(* C13 (as claimed): what a run that failed in Statistics, after Risk      *)
(* Assessment completed, leaves to observe differs from what a run leaves  *)
(* in which no stage completed, and from what a successful run leaves.     *)
C13_PartialSuccessDistinguishable ==
    \A a, b \in outcomes :
        (Len(a.completed) = 3 /\ a.observable.result.kind = "raised") =>
            /\ b.completed = <<>> => a.observable # b.observable
            /\ b.observable.result.kind = "returned" => a.observable # b.observable

----------------------------------------------------------------------------
(* FDOTParcelFetcher (scripts/fdot_ingest/fetch_parcels.py).  The steps    *)
(* of fetch_all_parcels are separated by its awaits: a page request, the   *)
(* marking of a county, the saving of its data, the final save.            *)

MaxFetchRuns == 2
MaxCountyParcels == 3
FetchBatchSize == 2

(* config.retry_attempts *)
RetryAttempts == 3

(* line 214: the progress is saved every ten full batches *)
PeriodicSaveBatches == 10

(* The tables and the positions of the ETL pipeline *)
etlVars == <<now, parcels, riskInput, assessments, properties, events,
             notifications, analytics_metrics, riskLocal, linkLocal, detectLocal,
             cleanLocal, pipeLocal, scoreLocal, statLocal>>

(* How an attempt of a request ends: status 200, status 429, or another    *)
(* status, a timeout or an exception                                       *)
AttemptOutcomes == {"200", "429", "error"}

(* _fetch_with_retry: the attempts att[1], att[2], ... are made until one  *)
(* is answered 200, whose json is returned; None after the last attempt    *)
RECURSIVE FetchWithRetry(_, _)
FetchWithRetry(att, attempt) ==
    IF attempt > RetryAttempts THEN "None"
    ELSE IF att[attempt] = "200" THEN "data"
    ELSE FetchWithRetry(att, attempt + 1)

(* The number of parcels of data['parcels'] for county at offset off *)
BatchParcels(county, off) ==
    IF api_parcels[county] - off <= 0 THEN 0
    ELSE Min(FetchBatchSize, api_parcels[county] - off)

(* _save_progress: the file is written, or the exception is logged and the *)
(* file is as before                                                       *)
SaveProgress(p) == resume_file' \in {p, resume_file}

(* The county of the current iteration of the for loop *)
CurrentCounty == remaining_counties[county_index]

(* FDOTParcelFetcher(config) loads the resume file; lines 271-285 of        *)
(* fetch_all_parcels: the counties not yet completed remain                *)
FetchStart ==
    /\ fpc = "idle"
    /\ fetchRuns < MaxFetchRuns
    /\ fetchRuns' = fetchRuns + 1
    /\ progress' = resume_file
    /\ remaining_counties' =
          SelectSeq(FetchCounties,
                    LAMBDA c : \A k \in 1..Len(resume_file.counties_completed) :
                                  resume_file.counties_completed[k] # c)
    /\ county_index' = 1
    /\ fetch_offset' = 0
    /\ fetch_parcels' = 0
    /\ fetch_results' = <<>>
    /\ fpc' = IF remaining_counties' = <<>> THEN "final" ELSE "page"
    /\ fetch_hist' = IF remaining_counties' = <<>> THEN fetch_hist
                     ELSE [fetch_hist EXCEPT ![remaining_counties'[1]] =
                              [pages_ok |-> TRUE, saved |-> FALSE]]
    /\ UNCHANGED <<resume_file, api_parcels, county_files>>
    /\ UNCHANGED etlVars

(* lines 197-223: one pass of the while loop of _fetch_county_parcels *)
FetchPage ==
    /\ fpc = "page"
    /\ \E att \in [1..RetryAttempts -> AttemptOutcomes] :
          LET data == FetchWithRetry(att, 1)
              batch == BatchParcels(CurrentCounty, fetch_offset)
              after == [progress EXCEPT !.fetched_parcels = @ + batch]
          IN IF data = "None"
             THEN /\ fpc' = "mark"
                  /\ fetch_hist' = [fetch_hist EXCEPT ![CurrentCounty].pages_ok = FALSE]
                  /\ UNCHANGED <<progress, resume_file, fetch_offset, fetch_parcels>>
             ELSE IF batch = 0
             THEN /\ fpc' = "mark"
                  /\ UNCHANGED <<progress, resume_file, fetch_offset, fetch_parcels,
                                 fetch_hist>>
             ELSE /\ fetch_parcels' = fetch_parcels + batch
                  /\ fetch_offset' = fetch_offset + batch
                  /\ progress' = after
                  /\ IF after.fetched_parcels % (FetchBatchSize * PeriodicSaveBatches) = 0
                     THEN SaveProgress(after)
                     ELSE resume_file' = resume_file
                  /\ fpc' = IF batch < FetchBatchSize THEN "mark" ELSE "page"
                  /\ fetch_hist' = fetch_hist
    /\ UNCHANGED <<api_parcels, remaining_counties, county_index, fetch_results,
                   county_files, fetchRuns>>
    /\ UNCHANGED etlVars

(* lines 225-227: the county is marked completed and the progress saved *)
FetchMark ==
    /\ fpc = "mark"
    /\ progress' = [progress EXCEPT !.counties_completed = Append(@, CurrentCounty)]
    /\ SaveProgress(progress')
    /\ fpc' = "save"
    /\ UNCHANGED <<api_parcels, remaining_counties, county_index, fetch_offset,
                   fetch_parcels, fetch_results, county_files, fetchRuns, fetch_hist>>
    /\ UNCHANGED etlVars

(* The for loop goes on with the next county, or ends *)
FetchNextCounty ==
    /\ county_index' = county_index + 1
    /\ fetch_offset' = 0
    /\ fetch_parcels' = 0
    /\ fpc' = IF county_index < Len(remaining_counties) THEN "page" ELSE "final"

(* lines 289-301: the parcels of the county are saved, or the save raises *)
(* and the county counts as failed                                        *)
FetchSave ==
    /\ fpc = "save"
    /\ LET county == CurrentCounty
           began == IF county_index < Len(remaining_counties)
                    THEN [fetch_hist EXCEPT ![remaining_counties[county_index + 1]] =
                             [pages_ok |-> TRUE, saved |-> FALSE]]
                    ELSE fetch_hist
       IN \/ /\ fetch_parcels > 0
             /\ county_files' = county_files
                   \cup {[county |-> county, parcel_count |-> fetch_parcels]}
             /\ fetch_results' = Append(fetch_results, <<county, fetch_parcels>>)
             /\ fetch_hist' = [began EXCEPT ![county].saved = TRUE]
             /\ progress' = progress
          \/ /\ fetch_parcels > 0
             /\ progress' = [progress EXCEPT !.failed_parcels = @ + 1]
             /\ fetch_results' = Append(fetch_results, <<county, 0 - 1>>)
             /\ fetch_hist' = began
             /\ county_files' = county_files
          \/ /\ fetch_parcels = 0
             /\ fetch_results' = Append(fetch_results, <<county, 0>>)
             /\ fetch_hist' = [began EXCEPT ![county].saved = TRUE]
             /\ UNCHANGED <<progress, county_files>>
    /\ FetchNextCounty
    /\ UNCHANGED <<resume_file, api_parcels, remaining_counties, fetchRuns>>
    /\ UNCHANGED etlVars

(* lines 303-315: the final save of the progress; the results are returned *)
FetchFinal ==
    /\ fpc = "final"
    /\ SaveProgress(progress)
    /\ fpc' = "idle"
    /\ UNCHANGED <<progress, api_parcels, remaining_counties, county_index,
                   fetch_offset, fetch_parcels, fetch_results, county_files,
                   fetchRuns, fetch_hist>>
    /\ UNCHANGED etlVars

InitFetch ==
    /\ now = 0
    /\ parcels = {}
    /\ assessments = {}
    /\ events = {}
    /\ notifications = EmptyBag
    /\ properties = <<>>
    /\ InitRiskIdle
    /\ InitLinkIdle
    /\ InitDetectIdle
    /\ InitCleanIdle
    /\ InitPipeIdle
    /\ InitScoreIdle
    /\ InitFetcher
    /\ api_parcels \in [FetchCountySet -> 0..MaxCountyParcels]
    /\ spc = "idle"
    /\ stx = EmptyBag
    /\ sstart = 0
    /\ statsRuns = 0
    /\ slast = NoStats

NextFetch ==
    \/ FetchStart
    \/ FetchPage
    \/ FetchMark
    \/ FetchSave
    \/ FetchFinal

SpecFetch == InitFetch /\ [][NextFetch]_vars

(* The counties of a list of county names *)
CompletedIn(p) == {p.counties_completed[k] : k \in 1..Len(p.counties_completed)}

(* C37 (as claimed): when a run of the fetcher has ended, every county in  *)
(* progress.counties_completed, in memory and in the resume file, had all  *)
(* its pages fetched and its data saved: a county with a page request that *)
(* returned no data after all attempts, or whose save failed, is not       *)
(* marked and will be fetched again by the next run.                       *)
C37_CompletedOnlyWhenFetchedAndSaved ==
    (fpc = "idle" /\ fetchRuns > 0) =>
        \A c \in CompletedIn(progress) \cup CompletedIn(resume_file) :
            fetch_hist[c].pages_ok /\ fetch_hist[c].saved

====
